---- MODULE Spec2Model ----
(***************************************************************************)
(* Label name/ID resolution of forgejo-mcp (pkg/label): the resolver with  *)
(* its per-repository cache behind a sync.RWMutex, the token loop of       *)
(* ResolveLabelIDs and the string helpers it relies on.                    *)
(*                                                                         *)
(* Go strings are modelled as sequences of one-character strings, so that  *)
(* trimming, lowercasing, parsing and substring search are computed        *)
(* character by character.                                                 *)
(***************************************************************************)
EXTENDS Integers, Sequences, FiniteSets, TLC

(***************************************************************************)
(* Bounds of the model.                                                    *)
(***************************************************************************)
\* number of goroutines calling into the one shared resolver
NumThreads == 2
\* operations invoked in one behaviour of the concurrent runs
MaxCalls == 2
\* operations invoked in one behaviour of the sequential runs
MaxSeqCalls == 3
\* longest labels list passed to ResolveLabelIDs in the sequential runs
MaxLabels == 2
\* longest string handed to parseStringList
MaxStrLen == 4
\* longest Suggestions list of an error that is rendered on its own
MaxSuggestions == 2
\* largest issue number in a request
MaxIssue == 2

Threads == 1 .. NumThreads

(***************************************************************************)
(* Strings.                                                                *)
(***************************************************************************)
UpperChars ==
    <<"A","B","C","D","E","F","G","H","I","J","K","L","M",
      "N","O","P","Q","R","S","T","U","V","W","X","Y","Z">>
LowerChars ==
    <<"a","b","c","d","e","f","g","h","i","j","k","l","m",
      "n","o","p","q","r","s","t","u","v","w","x","y","z">>
DigitChars == <<"0","1","2","3","4","5","6","7","8","9">>
SpaceChars == {" ", "\t", "\n", "\r"}

\* unicode.ToLower on one character (ASCII letters)
ToLowerChar(c) ==
    IF \E i \in 1 .. Len(UpperChars) : UpperChars[i] = c
    THEN LowerChars[CHOOSE i \in 1 .. Len(UpperChars) : UpperChars[i] = c]
    ELSE c

\* strings.ToLower
ToLower(s) == [i \in 1 .. Len(s) |-> ToLowerChar(s[i])]

RECURSIVE TrimLeftSpace(_)
TrimLeftSpace(s) ==
    IF s # <<>> /\ Head(s) \in SpaceChars THEN TrimLeftSpace(Tail(s)) ELSE s

RECURSIVE TrimRightSpace(_)
TrimRightSpace(s) ==
    IF s # <<>> /\ s[Len(s)] \in SpaceChars
    THEN TrimRightSpace(SubSeq(s, 1, Len(s) - 1))
    ELSE s

\* strings.TrimSpace
TrimSpace(s) == TrimRightSpace(TrimLeftSpace(s))

\* strings.Index: the (0-based) place of the first occurrence of substr in s, or -1
Index(s, substr) ==
    LET hits == {i \in 0 .. (Len(s) - Len(substr)) :
                    SubSeq(s, i + 1, i + Len(substr)) = substr}
    IN  IF hits = {} THEN -1 ELSE CHOOSE i \in hits : \A j \in hits : i <= j

\* strings.Contains
Contains(s, substr) == Index(s, substr) >= 0

IsDigit(c) == \E i \in 1 .. Len(DigitChars) : DigitChars[i] = c
DigitVal(c) == (CHOOSE i \in 1 .. Len(DigitChars) : DigitChars[i] = c) - 1

RECURSIVE StripZeros(_)
StripZeros(ds) ==
    IF Len(ds) > 1 /\ Head(ds) = "0" THEN StripZeros(Tail(ds)) ELSE ds

\* ds <= limit for two digit strings without leading zeros
RECURSIVE DigitsLeq(_, _)
DigitsLeq(ds, limit) ==
    IF Len(ds) # Len(limit) THEN Len(ds) < Len(limit)
    ELSE IF ds = <<>> THEN TRUE
    ELSE IF Head(ds) # Head(limit) THEN DigitVal(Head(ds)) < DigitVal(Head(limit))
    ELSE DigitsLeq(Tail(ds), Tail(limit))

\* the magnitudes of math.MaxInt64 and math.MinInt64
MaxInt64Digits ==
    <<"9","2","2","3","3","7","2","0","3","6","8","5","4","7","7","5","8","0","7">>
MinInt64Digits ==
    <<"9","2","2","3","3","7","2","0","3","6","8","5","4","7","7","5","8","0","8">>

RECURSIVE DigitsValue(_, _)
DigitsValue(ds, acc) ==
    IF ds = <<>> THEN acc ELSE DigitsValue(Tail(ds), acc * 10 + DigitVal(Head(ds)))

\* a parse that takes every well-formed numeral, an out-of-range one as -1
ParseIntSyntaxOnly(s) ==
    LET neg    == s # <<>> /\ Head(s) = "-"
        signed == s # <<>> /\ Head(s) \in {"+", "-"}
        ds     == IF signed THEN Tail(s) ELSE s
        syntax == ds # <<>> /\ \A i \in 1 .. Len(ds) : IsDigit(ds[i])
        range  == syntax /\
                  DigitsLeq(StripZeros(ds), IF neg THEN MinInt64Digits ELSE MaxInt64Digits)
    IN  IF range
        THEN [ok |-> TRUE,
              val |-> IF neg THEN 0 - DigitsValue(StripZeros(ds), 0)
                             ELSE DigitsValue(StripZeros(ds), 0)]
        ELSE [ok |-> syntax, val |-> 0 - 1]

\* strconv.ParseInt(s, 10, 64): ok is FALSE for a syntax error and for a value
\* out of the int64 range (both are a non-nil err for the caller)
ParseInt(s) ==
    LET neg    == s # <<>> /\ Head(s) = "-"
        signed == s # <<>> /\ Head(s) \in {"+", "-"}
        ds     == IF signed THEN Tail(s) ELSE s
        syntax == ds # <<>> /\ \A i \in 1 .. Len(ds) : IsDigit(ds[i])
        range  == syntax /\
                  DigitsLeq(StripZeros(ds), IF neg THEN MinInt64Digits ELSE MaxInt64Digits)
    IN  IF range
        THEN [ok |-> TRUE,
              val |-> IF neg THEN 0 - DigitsValue(StripZeros(ds), 0)
                             ELSE DigitsValue(StripZeros(ds), 0)]
        ELSE [ok |-> FALSE, val |-> 0]

(***************************************************************************)
(* Go maps as functions.                                                   *)
(***************************************************************************)
EmptyMap == <<>>
MapPut(m, k, v) == [x \in (DOMAIN m) \cup {k} |-> IF x = k THEN v ELSE m[x]]

(***************************************************************************)
(* Errors and literal texts.                                               *)
(***************************************************************************)
ReasonEmpty ==
    <<"e","m","p","t","y"," ","l","a","b","e","l"," ","n","o","t"," ","a","l","l","o","w","e","d">>
ReasonPositive ==
    <<"I","D"," ","m","u","s","t"," ","b","e"," ","p","o","s","i","t","i","v","e">>
NotFoundPrefix ==
    <<"n","o","t"," ","f","o","u","n","d"," ","i","n"," ","r","e","p","o","s","i","t","o","r","y"," ">>
FetchWrapPrefix ==
    <<"f","a","i","l","e","d"," ","t","o"," ","f","e","t","c","h"," ","r","e","p","o","s","i","t","o","r","y"," ","l","a","b","e","l","s",":"," ">>
ListWrapPrefix ==
    <<"f","a","i","l","e","d"," ","t","o"," ","l","i","s","t"," ","l","a","b","e","l","s",":"," ">>
\* the error the upstream client returns when the listing fails
ErrUpstream == <<"E","O","F">>

\* a nil error
NoError ==
    [Type |-> "nil", Input |-> <<>>, Reason |-> <<>>, Suggestions |-> <<>>, Msg |-> <<>>]

\* an error that does not keep the input
NewResolutionErrorNoInput(input, reason, suggestions) ==
    [Type |-> "LabelResolutionError", Input |-> <<>>, Reason |-> reason,
     Suggestions |-> suggestions, Msg |-> <<>>]

\* NewResolutionError(input, reason, suggestions)
NewResolutionError(input, reason, suggestions) ==
    [Type |-> "LabelResolutionError", Input |-> input, Reason |-> reason,
     Suggestions |-> suggestions, Msg |-> <<>>]

\* fmt.Errorf(prefix + "%w", err): an error that is no LabelResolutionError
WrapError(prefix, err) ==
    [Type |-> "wrapError", Input |-> <<>>, Reason |-> <<>>, Suggestions |-> <<>>,
     Msg |-> prefix \o err.Msg]

UpstreamError ==
    [Type |-> "upstream", Input |-> <<>>, Reason |-> <<>>, Suggestions |-> <<>>,
     Msg |-> ErrUpstream]

LabelOpen == <<"l","a","b","e","l"," ","'">>
QuoteSpace == <<"'"," ">>
DidYouMean == <<"."," ","D","i","d"," ","y","o","u"," ","m","e","a","n",":"," ">>
CommaSpace == <<","," ">>

\* formatSuggestions: the suggestions joined by ", "
RECURSIVE formatSuggestions(_)
formatSuggestions(suggestions) ==
    IF suggestions = <<>> THEN <<>>
    ELSE IF Len(suggestions) = 1 THEN Head(suggestions)
    ELSE Head(suggestions) \o CommaSpace \o formatSuggestions(Tail(suggestions))

\* a rendering that leaves the suggestions out
ErrorWithoutSuggestions(e) ==
    LabelOpen \o e.Input \o QuoteSpace \o e.Reason

\* LabelResolutionError.Error()
Error(e) ==
    IF Len(e.Suggestions) > 0
    THEN LabelOpen \o e.Input \o QuoteSpace \o e.Reason \o DidYouMean
         \o formatSuggestions(e.Suggestions) \o <<"?">>
    ELSE LabelOpen \o e.Input \o QuoteSpace \o e.Reason

(***************************************************************************)
(* Pure helpers of the resolver.                                           *)
(***************************************************************************)
\* fmt.Sprintf("%s/%s", owner, repo)
cacheKey(owner, repo) == owner \o <<"/">> \o repo

\* a loop that keys the names as the upstream spells them
RECURSIVE BuildMapsKeysAsFetched(_, _, _)
BuildMapsKeysAsFetched(labels, nameToID, idToName) ==
    IF labels = <<>> THEN [nameToID |-> nameToID, idToName |-> idToName]
    ELSE LET label == Head(labels)
         IN  BuildMapsKeysAsFetched(Tail(labels),
                                    MapPut(nameToID, label.Name, label.ID),
                                    MapPut(idToName, label.ID, label.Name))

\* a loop in which the first label of a name keeps the name
RECURSIVE BuildMapsFirstWins(_, _, _)
BuildMapsFirstWins(labels, nameToID, idToName) ==
    IF labels = <<>> THEN [nameToID |-> nameToID, idToName |-> idToName]
    ELSE LET label == Head(labels)
         IN  BuildMapsFirstWins(Tail(labels),
                                IF ToLower(label.Name) \in DOMAIN nameToID THEN nameToID
                                ELSE MapPut(nameToID, ToLower(label.Name), label.ID),
                                MapPut(idToName, label.ID, label.Name))

\* the loop that builds both maps from the fetched labels, in fetch order
RECURSIVE BuildMaps(_, _, _)
BuildMaps(labels, nameToID, idToName) ==
    IF labels = <<>> THEN [nameToID |-> nameToID, idToName |-> idToName]
    ELSE LET label == Head(labels)
         IN  BuildMaps(Tail(labels),
                       MapPut(nameToID, ToLower(label.Name), label.ID),
                       MapPut(idToName, label.ID, label.Name))

\* a lookup with the name as typed
lookupByNameExact(labelMap, name) ==
    IF name \in DOMAIN labelMap
    THEN [id |-> labelMap[name], found |-> TRUE]
    ELSE [id |-> 0, found |-> FALSE]

\* lookupByName: (id, found) of a Go map read with a lowercased key
lookupByName(labelMap, name) ==
    IF ToLower(name) \in DOMAIN labelMap
    THEN [id |-> labelMap[ToLower(name)], found |-> TRUE]
    ELSE [id |-> 0, found |-> FALSE]

\* a reverse lookup that never finds the ID
findNameByIDNever(idToName, id) == <<>>

\* findNameByID: the name, or "" when the ID is not in the map
findNameByID(idToName, id) ==
    IF id \in DOMAIN idToName THEN idToName[id] ELSE <<>>

\* the orders in which a range over a Go map may visit its keys
RECURSIVE MapOrders(_)
MapOrders(keys) ==
    IF keys = {} THEN {<<>>}
    ELSE UNION {{<<k>> \o rest : rest \in MapOrders(keys \ {k})} : k \in keys}

\* the matching loop of getSuggestions over the keys in the order visited
RECURSIVE CollectSuggestions(_, _, _)
CollectSuggestions(order, inputLower, suggestions) ==
    IF order = <<>> THEN suggestions
    ELSE LET name == Head(order)
         IN  CollectSuggestions(Tail(order), inputLower,
                 IF Contains(name, inputLower) \/ Contains(inputLower, name)
                 THEN Append(suggestions, name)
                 ELSE suggestions)

\* suggestions that only look for the input inside the names, cut after two
getSuggestionsCutAtTwo(nameToID, input, order) ==
    LET suggestions == CollectSuggestions(order, ToLower(input), <<>>)
    IN  IF Len(suggestions) > 2 THEN SubSeq(suggestions, 1, 2) ELSE suggestions

\* suggestions that stop at the first matching name
getSuggestionsFirstMatch(nameToID, input, order) ==
    LET suggestions == CollectSuggestions(order, ToLower(input), <<>>)
    IN  IF Len(suggestions) > 1 THEN SubSeq(suggestions, 1, 1) ELSE suggestions

\* getSuggestions, for one iteration order of the map
getSuggestions(nameToID, input, order) ==
    LET suggestions == CollectSuggestions(order, ToLower(input), <<>>)
    IN  IF Len(suggestions) > 3 THEN SubSeq(suggestions, 1, 3) ELSE suggestions

\* the reason of a not-found error: fmt.Sprintf("not found in repository %s/%s", owner, repo)
NotFoundReasonSwapped(owner, repo) == NotFoundPrefix \o repo \o <<"/">> \o owner
NotFoundReason(owner, repo) == NotFoundPrefix \o owner \o <<"/">> \o repo

\* the display name of a numeric token: the catalog's name for the ID, else the token
DisplayNameNoFallback(name, labelStr) == name
DisplayName(name, labelStr) == IF name # <<>> THEN name ELSE labelStr

\* both appends of one accepted token, and on to the next token
AppendLabelUnique(c, id, name) ==
    IF \E j \in 1 .. Len(c.labelIDs) : c.labelIDs[j] = id
    THEN [c EXCEPT !.i = c.i + 1]
    ELSE [c EXCEPT !.i = c.i + 1,
                   !.labelIDs = Append(c.labelIDs, id),
                   !.resolvedLabels = Append(c.resolvedLabels, [ID |-> id, Name |-> name])]
AppendLabel(c, id, name) ==
    [c EXCEPT !.i = c.i + 1,
              !.labelIDs = Append(c.labelIDs, id),
              !.resolvedLabels = Append(c.resolvedLabels, [ID |-> id, Name |-> name])]

\* one pass of the token loop of ResolveLabelIDs over labels[i + 1]: either the
\* two slices grow by one entry (err stays nil) or the call returns err
ResolveToken(c, order) ==
    LET labelStr == TrimSpace(c.labels[c.i + 1])
        parsed   == ParseInt(labelStr)
        byName   == lookupByName(c.nameToID, labelStr)
    IN  IF labelStr = <<>>
        THEN [c EXCEPT !.err = NewResolutionError(<<>>, ReasonEmpty, <<>>)]
        ELSE IF parsed.ok
        THEN IF parsed.val <= 0
             THEN [c EXCEPT !.err = NewResolutionError(labelStr, ReasonPositive, <<>>)]
             ELSE AppendLabel(c, parsed.val,
                              DisplayName(findNameByID(c.idToName, parsed.val), labelStr))
        ELSE IF ~byName.found
        THEN [c EXCEPT !.err =
                 NewResolutionError(labelStr, NotFoundReason(c.owner, c.repo),
                                    getSuggestions(c.nameToID, labelStr, order))]
        ELSE AppendLabel(c, byName.id, labelStr)

(***************************************************************************)
(* Inputs: repositories, label tokens, and what the forge may answer.      *)
(***************************************************************************)
\* the (owner, repo) pairs of the calls
RepoPairs ==
    {<<<<"a">>, <<"b","/","c">>>>, <<<<"a">>, <<"c">>>>}
SeqRepoPairs ==
    {<<<<"a">>, <<"b","/","c">>>>, <<<<"a">>, <<"c">>>>}

\* label lists the forge's ListRepoLabels may return (page 1)
LabelsBug ==
    <<[ID |-> 1, Name |-> <<"B","u","g">>],
      [ID |-> 2, Name |-> <<"b","u","g","f","i","x">>]>>
LabelsCaseTwins ==
    <<[ID |-> 1, Name |-> <<"B","u","g">>],
      [ID |-> 2, Name |-> <<"b","u","g">>]>>
LabelsMany ==
    <<[ID |-> 1, Name |-> <<"b","a">>],
      [ID |-> 2, Name |-> <<"b","b">>],
      [ID |-> 3, Name |-> <<"b","c">>],
      [ID |-> 4, Name |-> <<"B","d">>]>>
UpstreamLists == {LabelsBug, <<>>}
SeqUpstreamLists == {LabelsBug, LabelsCaseTwins, LabelsMany, <<>>}

\* tokens of a labels argument
Tokens ==
    {<<>>, <<" ","\t">>, <<"0">>, <<"-","1">>, <<"1">>, <<" ","0","9"," ">>,
     <<" ","B","u","G">>, <<"b">>}

RECURSIVE ListsUpTo(_, _)
ListsUpTo(S, n) ==
    IF n = 0 THEN {<<>>}
    ELSE LET shorter == ListsUpTo(S, n - 1)
         IN  shorter \cup {Append(l, x) : l \in {s \in shorter : Len(s) = n - 1}, x \in S}

\* the labels arguments of the sequential runs and of the concurrent runs
SeqLabelLists == ListsUpTo(Tokens, MaxLabels)
LabelLists == {<<<<" ","B","u","G">>>>, <<<<"1">>, <<"0">>>>}

(***************************************************************************)
(* State.                                                                  *)
(***************************************************************************)
VARIABLES
    cache,      \* labelResolverImpl.cache: "owner/repo" -> cachedLabels
    mu,         \* labelResolverImpl.mu: readers holding it, and whether it is write-locked
    pc,         \* where each goroutine stands in the operation it is running
    call,       \* each goroutine's operation: arguments, locals, return values
    okFetches,  \* per cache key, the ListRepoLabels calls that succeeded since the cache was last empty
    evicted,    \* the entries the last ClearCache threw away, where that is remembered, until the next operation returns
    ncalls,     \* operations invoked so far
    fn,         \* a helper applied on its own: its arguments and its result
    tool        \* a tool handler run on a request: its arguments, upstream calls, result

vars == <<cache, mu, pc, call, okFetches, evicted, ncalls, fn, tool>>

\* a goroutine that runs no operation
NoCall ==
    [op |-> "none", owner |-> <<>>, repo |-> <<>>, labels |-> <<>>,
     nameToID |-> EmptyMap, idToName |-> EmptyMap, i |-> 0,
     labelIDs |-> <<>>, resolvedLabels |-> <<>>,
     fetched |-> <<>>, missed |-> FALSE, attempts |-> 0,
     ids |-> <<>>, resolved |-> <<>>, err |-> NoError, size |-> 0]

\* an argument that the request does not have, a string argument, a number argument
Missing == [present |-> FALSE, str |-> <<>>, num |-> 0]
StringArg(s) == [present |-> TRUE, str |-> s, num |-> 0]
\* a float64 is kept as its double, so that halves can be told from whole numbers
FloatArg(halves) == [present |-> TRUE, str |-> <<>>, num |-> halves]

\* no request is being handled
NoTool ==
    [pc |-> "none",
     args |-> [owner |-> Missing, repo |-> Missing, index |-> Missing,
               new_dependency |-> Missing],
     upstream |-> <<>>, err |-> <<>>, result |-> "nil"]

NoFn ==
    [op |-> "none", labelMap |-> EmptyMap, input |-> <<>>, e |-> NoError, id |-> 0,
     out |-> <<>>]

\* NewLabelResolver: an empty cache, an unlocked mutex
Init ==
    /\ cache = EmptyMap
    /\ mu = [readers |-> 0, writer |-> FALSE]
    /\ pc = [t \in Threads |-> "idle"]
    /\ call = [t \in Threads |-> NoCall]
    /\ okFetches = EmptyMap
    /\ evicted = EmptyMap
    /\ ncalls = 0
    /\ tool = NoTool
    /\ fn = NoFn

\* a write lock that does not wait for the readers to leave
LockAmongReaders ==
    /\ ~mu.writer
    /\ mu' = [mu EXCEPT !.writer = TRUE]

\* a read lock that does not wait for the writer to leave
RLockDuringWrite == mu' = [mu EXCEPT !.readers = mu.readers + 1]

\* sync.RWMutex
RLock ==
    /\ ~mu.writer
    /\ mu' = [mu EXCEPT !.readers = mu.readers + 1]
RUnlock == mu' = [mu EXCEPT !.readers = mu.readers - 1]
Lock ==
    /\ ~mu.writer
    /\ mu.readers = 0
    /\ mu' = [mu EXCEPT !.writer = TRUE]
\* an unlock that leaves the mutex as it is
UnlockForgotten == mu' = mu
Unlock == mu' = [mu EXCEPT !.writer = FALSE]

Key(t) == cacheKey(call[t].owner, call[t].repo)

(***************************************************************************)
(* ResolveLabelIDs.                                                        *)
(***************************************************************************)
\* a goroutine calls ResolveLabelIDs(ctx, owner, repo, labels)
CallResolveLabelIDs(t, pairs, lists, limit) ==
    /\ pc[t] = "idle"
    /\ ncalls < limit
    /\ \E p \in pairs, labels \in lists :
          call' = [call EXCEPT ![t] =
                      [NoCall EXCEPT !.op = "ResolveLabelIDs",
                                     !.owner = p[1], !.repo = p[2], !.labels = labels]]
    /\ pc' = [pc EXCEPT ![t] = "RLock"]
    /\ ncalls' = ncalls + 1
    /\ UNCHANGED <<cache, mu, okFetches, evicted, fn, tool>>

\* fetchRepositoryLabels: p.mu.RLock()
FetchRLock(t) ==
    /\ pc[t] = "RLock"
    /\ RLock
    /\ pc' = [pc EXCEPT ![t] = "check"]
    /\ UNCHANGED <<cache, call, okFetches, evicted, ncalls, fn, tool>>

\* a first look that never finds the entry
FetchCheckMisses(t) ==
    /\ pc[t] = "check"
    /\ RUnlock
    /\ call' = [call EXCEPT ![t].missed = TRUE]
    /\ pc' = [pc EXCEPT ![t] = "Lock"]
    /\ UNCHANGED <<cache, okFetches, evicted, ncalls, fn, tool>>

\* fetchRepositoryLabels: the first look at the cache, and p.mu.RUnlock()
FetchCheck(t) ==
    /\ pc[t] = "check"
    /\ RUnlock
    /\ IF Key(t) \in DOMAIN cache
       THEN /\ call' = [call EXCEPT ![t].nameToID = cache[Key(t)].nameToID,
                                   ![t].idToName = cache[Key(t)].idToName]
            /\ pc' = [pc EXCEPT ![t] = "loop"]
       ELSE /\ call' = [call EXCEPT ![t].missed = TRUE]
            /\ pc' = [pc EXCEPT ![t] = "Lock"]
    /\ UNCHANGED <<cache, okFetches, evicted, ncalls, fn, tool>>

\* fetchRepositoryLabels: p.mu.Lock()
FetchLock(t) ==
    /\ pc[t] = "Lock"
    /\ Lock
    /\ pc' = [pc EXCEPT ![t] = "recheck"]
    /\ UNCHANGED <<cache, call, okFetches, evicted, ncalls, fn, tool>>

\* a fetch that does not look again once it holds the write lock
RecheckNever(key) == FALSE

\* is the key in the cache, at the double-check under the write lock
Recheck(key) == key \in DOMAIN cache

\* fetchRepositoryLabels: the double-check; a hit returns (the deferred Unlock runs)
FetchRecheck(t) ==
    /\ pc[t] = "recheck"
    /\ IF Recheck(Key(t))
       THEN /\ call' = [call EXCEPT ![t].nameToID = cache[Key(t)].nameToID,
                                   ![t].idToName = cache[Key(t)].idToName]
            /\ Unlock
            /\ pc' = [pc EXCEPT ![t] = "loop"]
       ELSE /\ pc' = [pc EXCEPT ![t] = "ListRepoLabels"]
            /\ UNCHANGED <<call, mu>>
    /\ UNCHANGED <<cache, okFetches, evicted, ncalls, fn, tool>>

\* a failed listing that leaves an empty catalog behind
CacheAfterFailureStoresEmpty(key) ==
    MapPut(cache, key, [nameToID |-> EmptyMap, idToName |-> EmptyMap])

\* the cache after a failed listing
CacheAfterFailure(key) == cache

\* fetchRepositoryLabels: ListRepoLabels returns the labels; both maps are built
\* and cached, the deferred Unlock runs
FetchListOK(t, lists) ==
    /\ pc[t] = "ListRepoLabels"
    /\ \E labels \in lists :
          LET maps == BuildMaps(labels, EmptyMap, EmptyMap)
          IN  /\ cache' = MapPut(cache, Key(t), maps)
              /\ call' = [call EXCEPT ![t].nameToID = maps.nameToID,
                                      ![t].idToName = maps.idToName,
                                      ![t].fetched = labels,
                                      ![t].attempts = call[t].attempts + 1]
    /\ okFetches' = MapPut(okFetches, Key(t),
                           IF Key(t) \in DOMAIN okFetches THEN okFetches[Key(t)] + 1 ELSE 1)
    /\ Unlock
    /\ pc' = [pc EXCEPT ![t] = "loop"]
    /\ UNCHANGED <<evicted, ncalls, fn, tool>>

\* fetchRepositoryLabels: ListRepoLabels fails; the error is wrapped twice on the
\* way out of ResolveLabelIDs, the deferred Unlock runs
FetchListFail(t) ==
    /\ pc[t] = "ListRepoLabels"
    /\ cache' = CacheAfterFailure(Key(t))
    /\ call' = [call EXCEPT ![t].attempts = call[t].attempts + 1,
                            ![t].err = WrapError(FetchWrapPrefix,
                                                 WrapError(ListWrapPrefix, UpstreamError))]
    /\ Unlock
    /\ pc' = [pc EXCEPT ![t] = "done"]
    /\ UNCHANGED <<okFetches, evicted, ncalls, fn, tool>>

\* a rejection that hands back what the earlier tokens resolved to
ErrorReturnPartial(c) == [c EXCEPT !.ids = c.labelIDs, !.resolved = c.resolvedLabels]

\* what ResolveLabelIDs returns when a token is rejected
ErrorReturn(c) == [c EXCEPT !.ids = <<>>, !.resolved = <<>>]

\* a pass of the loop that looks the maps up in the cache again
ResolveStepFromCache(t) ==
    /\ pc[t] = "loop"
    /\ call[t].i < Len(call[t].labels)
    /\ LET now == IF Key(t) \in DOMAIN cache THEN cache[Key(t)]
                  ELSE [nameToID |-> EmptyMap, idToName |-> EmptyMap]
           seen == [call[t] EXCEPT !.nameToID = now.nameToID, !.idToName = now.idToName]
       IN  \E order \in MapOrders(DOMAIN seen.nameToID) :
              LET c == ResolveToken(seen, order)
              IN  IF c.err # NoError
                  THEN /\ call' = [call EXCEPT ![t] = ErrorReturn(c)]
                       /\ pc' = [pc EXCEPT ![t] = "done"]
                  ELSE /\ call' = [call EXCEPT ![t] = c]
                       /\ pc' = [pc EXCEPT ![t] = "loop"]
    /\ UNCHANGED <<cache, mu, okFetches, evicted, ncalls, fn, tool>>

\* a pass of the loop that drops the repository's entry when it rejects a token
ResolveStepRollsBack(t) ==
    /\ pc[t] = "loop"
    /\ call[t].i < Len(call[t].labels)
    /\ \E order \in MapOrders(DOMAIN call[t].nameToID) :
          LET c == ResolveToken(call[t], order)
          IN  IF c.err # NoError
              THEN /\ call' = [call EXCEPT ![t] = ErrorReturn(c)]
                   /\ pc' = [pc EXCEPT ![t] = "done"]
                   /\ cache' = [k \in DOMAIN cache \ {Key(t)} |-> cache[k]]
              ELSE /\ call' = [call EXCEPT ![t] = c]
                   /\ pc' = [pc EXCEPT ![t] = "loop"]
                   /\ cache' = cache
    /\ UNCHANGED <<mu, okFetches, evicted, ncalls, fn, tool>>

\* ResolveLabelIDs: one pass of the loop over labels
ResolveStep(t) ==
    /\ pc[t] = "loop"
    /\ call[t].i < Len(call[t].labels)
    /\ \E order \in MapOrders(DOMAIN call[t].nameToID) :
          LET c == ResolveToken(call[t], order)
          IN  IF c.err # NoError
              THEN /\ call' = [call EXCEPT ![t] = ErrorReturn(c)]
                   /\ pc' = [pc EXCEPT ![t] = "done"]
              ELSE /\ call' = [call EXCEPT ![t] = c]
                   /\ pc' = [pc EXCEPT ![t] = "loop"]
    /\ UNCHANGED <<cache, mu, okFetches, evicted, ncalls, fn, tool>>

\* ResolveLabelIDs: the loop is over, return labelIDs, resolvedLabels, nil
ResolveReturn(t) ==
    /\ pc[t] = "loop"
    /\ call[t].i = Len(call[t].labels)
    /\ call' = [call EXCEPT ![t].ids = call[t].labelIDs,
                            ![t].resolved = call[t].resolvedLabels]
    /\ pc' = [pc EXCEPT ![t] = "done"]
    /\ UNCHANGED <<cache, mu, okFetches, evicted, ncalls, fn, tool>>

(***************************************************************************)
(* ClearCache and GetCacheSize.                                            *)
(***************************************************************************)
CallClearCache(t, limit) ==
    /\ pc[t] = "idle"
    /\ ncalls < limit
    /\ call' = [call EXCEPT ![t] = [NoCall EXCEPT !.op = "ClearCache"]]
    /\ pc' = [pc EXCEPT ![t] = "clearLock"]
    /\ ncalls' = ncalls + 1
    /\ UNCHANGED <<cache, mu, okFetches, evicted, fn, tool>>

\* ClearCache: p.mu.Lock()
ClearLock(t) ==
    /\ pc[t] = "clearLock"
    /\ Lock
    /\ pc' = [pc EXCEPT ![t] = "clear"]
    /\ UNCHANGED <<cache, call, okFetches, evicted, ncalls, fn, tool>>

\* a clear that takes the lock and leaves the entries in place
ClearCacheKeepsEntries(t, remember) ==
    /\ pc[t] = "clear"
    /\ cache' = cache
    /\ okFetches' = EmptyMap
    /\ evicted' = IF remember THEN cache ELSE evicted
    /\ Unlock
    /\ pc' = [pc EXCEPT ![t] = "done"]
    /\ UNCHANGED <<call, ncalls, fn, tool>>

\* a clear that deletes one entry only
ClearCacheOneEntry(t, remember) ==
    /\ pc[t] = "clear"
    /\ cache' = IF cache = EmptyMap THEN EmptyMap
                ELSE LET gone == CHOOSE k \in DOMAIN cache : TRUE
                     IN  [k \in (DOMAIN cache) \ {gone} |-> cache[k]]
    /\ okFetches' = [k \in DOMAIN cache' |-> okFetches[k]]
    /\ evicted' = IF remember THEN cache ELSE evicted
    /\ Unlock
    /\ pc' = [pc EXCEPT ![t] = "done"]
    /\ UNCHANGED <<call, ncalls, fn, tool>>

\* ClearCache: the cache is replaced by an empty map, the deferred Unlock runs
ClearCache(t, remember) ==
    /\ pc[t] = "clear"
    /\ cache' = EmptyMap
    /\ okFetches' = EmptyMap
    /\ evicted' = IF remember THEN cache ELSE evicted
    /\ Unlock
    /\ pc' = [pc EXCEPT ![t] = "done"]
    /\ UNCHANGED <<call, ncalls, fn, tool>>

CallGetCacheSize(t, limit) ==
    /\ pc[t] = "idle"
    /\ ncalls < limit
    /\ call' = [call EXCEPT ![t] = [NoCall EXCEPT !.op = "GetCacheSize"]]
    /\ pc' = [pc EXCEPT ![t] = "sizeRLock"]
    /\ ncalls' = ncalls + 1
    /\ UNCHANGED <<cache, mu, okFetches, evicted, fn, tool>>

\* GetCacheSize: p.mu.RLock()
SizeRLock(t) ==
    /\ pc[t] = "sizeRLock"
    /\ RLock
    /\ pc' = [pc EXCEPT ![t] = "size"]
    /\ UNCHANGED <<cache, call, okFetches, evicted, ncalls, fn, tool>>

\* GetCacheSize: len(p.cache), the deferred RUnlock runs
GetCacheSize(t) ==
    /\ pc[t] = "size"
    /\ call' = [call EXCEPT ![t].size = Cardinality(DOMAIN cache)]
    /\ RUnlock
    /\ pc' = [pc EXCEPT ![t] = "done"]
    /\ UNCHANGED <<cache, okFetches, evicted, ncalls, fn, tool>>

\* the caller has the return values; the goroutine is free for another call
Return(t) ==
    /\ pc[t] = "done"
    /\ pc' = [pc EXCEPT ![t] = "idle"]
    /\ call' = [call EXCEPT ![t] = NoCall]
    /\ evicted' = IF call[t].op = "ClearCache" THEN evicted ELSE EmptyMap
    /\ UNCHANGED <<cache, mu, okFetches, ncalls, fn, tool>>

(***************************************************************************)
(* Specifications.                                                         *)
(***************************************************************************)
\* goroutines calling concurrently
Next ==
    \E t \in Threads :
        \/ CallResolveLabelIDs(t, RepoPairs, LabelLists, MaxCalls)
        \/ FetchRLock(t)
        \/ FetchCheck(t)
        \/ FetchLock(t)
        \/ FetchRecheck(t)
        \/ FetchListOK(t, UpstreamLists)
        \/ FetchListFail(t)
        \/ ResolveStep(t)
        \/ ResolveReturn(t)
        \/ CallClearCache(t, MaxCalls)
        \/ ClearLock(t)
        \/ ClearCache(t, FALSE)
        \/ CallGetCacheSize(t, MaxCalls)
        \/ SizeRLock(t)
        \/ GetCacheSize(t)
        \/ Return(t)

Spec == Init /\ [][Next]_vars

\* one goroutine, calling with every labels list up to MaxLabels tokens
NextSeq ==
    \/ CallResolveLabelIDs(1, SeqRepoPairs, SeqLabelLists, MaxSeqCalls)
    \/ FetchRLock(1)
    \/ FetchCheck(1)
    \/ FetchLock(1)
    \/ FetchRecheck(1)
    \/ FetchListOK(1, SeqUpstreamLists)
    \/ FetchListFail(1)
    \/ ResolveStep(1)
    \/ ResolveReturn(1)
    \/ CallClearCache(1, MaxSeqCalls)
    \/ ClearLock(1)
    \/ ClearCache(1, FALSE)
    \/ Return(1)

SpecSeq == Init /\ [][NextSeq]_vars

\* what the calls under a fair scheduler resolve, and what the forge lists
LiveRepoPairs == {<<<<"a">>, <<"c">>>>}
LiveLabelLists == {<<>>, <<<<>>>>}
LiveUpstreamLists == {LabelsBug}

\* the steps goroutine t takes inside the call it is in: the scheduler runs a
\* goroutine that can run, the mutex is granted when it is free, and the
\* upstream call comes back
Progress(t) ==
    \/ FetchRLock(t)
    \/ FetchCheck(t)
    \/ FetchLock(t)
    \/ FetchRecheck(t)
    \/ FetchListOK(t, LiveUpstreamLists)
    \/ FetchListFail(t)
    \/ ResolveStep(t)
    \/ ResolveReturn(t)
    \/ ClearLock(t)
    \/ ClearCache(t, FALSE)
    \/ SizeRLock(t)
    \/ GetCacheSize(t)
    \/ Return(t)

\* goroutines calling concurrently under a fair scheduler, each call for the
\* same repository, without labels or with one empty label
NextLive ==
    \E t \in Threads :
        \/ CallResolveLabelIDs(t, LiveRepoPairs, LiveLabelLists, MaxCalls)
        \/ CallClearCache(t, MaxCalls)
        \/ CallGetCacheSize(t, MaxCalls)
        \/ Progress(t)

SpecLive == Init /\ [][NextLive]_vars /\ \A t \in Threads : WF_vars(Progress(t))

\* goroutines calling concurrently for repositories whose owner or name holds
\* a "/"
SlashRepoPairs ==
    {<<<<"a","/","b">>, <<"c">>>>, <<<<"a">>, <<"b","/","c">>>>, <<<<"a">>, <<"c">>>>}

NextSlash ==
    \E t \in Threads :
        \/ CallResolveLabelIDs(t, SlashRepoPairs, LabelLists, MaxCalls)
        \/ FetchRLock(t)
        \/ FetchCheck(t)
        \/ FetchLock(t)
        \/ FetchRecheck(t)
        \/ FetchListOK(t, UpstreamLists)
        \/ FetchListFail(t)
        \/ ResolveStep(t)
        \/ ResolveReturn(t)
        \/ CallClearCache(t, MaxCalls)
        \/ ClearLock(t)
        \/ ClearCache(t, FALSE)
        \/ CallGetCacheSize(t, MaxCalls)
        \/ SizeRLock(t)
        \/ GetCacheSize(t)
        \/ Return(t)

SpecSlash == Init /\ [][NextSlash]_vars

\* one caller at a time, resolving before and after clearing; what each clear
\* removed is remembered
ClearLabelLists == ListsUpTo({<<" ","B","u","G">>, <<"1">>}, MaxLabels)

NextClear ==
    \/ CallResolveLabelIDs(1, SeqRepoPairs, ClearLabelLists, MaxSeqCalls)
    \/ FetchRLock(1)
    \/ FetchCheck(1)
    \/ FetchLock(1)
    \/ FetchRecheck(1)
    \/ FetchListOK(1, SeqUpstreamLists)
    \/ FetchListFail(1)
    \/ ResolveStep(1)
    \/ ResolveReturn(1)
    \/ CallClearCache(1, MaxSeqCalls)
    \/ ClearLock(1)
    \/ ClearCache(1, TRUE)
    \/ Return(1)

SpecClear == Init /\ [][NextClear]_vars

\* one caller at a time on a repository that has labels named like numbers:
\* one named "2" that is not label 2, one named 2^63
LabelsNumeric ==
    <<[ID |-> 1, Name |-> <<"2">>],
      [ID |-> 2, Name |-> <<"x">>],
      [ID |-> 3, Name |-> MinInt64Digits]>>
NumRepoPairs == {<<<<"a">>, <<"c">>>>}
NumUpstreamLists == {LabelsNumeric, LabelsBug}
NumTokens == {<<"2">>, <<"+","2">>, <<"-","2">>, <<" ">> \o MinInt64Digits}
NumLabelLists == ListsUpTo(NumTokens, MaxLabels)

NextNum ==
    \/ CallResolveLabelIDs(1, NumRepoPairs, NumLabelLists, MaxSeqCalls)
    \/ FetchRLock(1)
    \/ FetchCheck(1)
    \/ FetchLock(1)
    \/ FetchRecheck(1)
    \/ FetchListOK(1, NumUpstreamLists)
    \/ FetchListFail(1)
    \/ ResolveStep(1)
    \/ ResolveReturn(1)
    \/ CallClearCache(1, MaxSeqCalls)
    \/ ClearLock(1)
    \/ ClearCache(1, FALSE)
    \/ Return(1)

SpecNum == Init /\ [][NextNum]_vars

\* one caller at a time asking for a name that two or four names of the
\* catalog match
OrderTokens == {<<"b">>, <<"1">>}
OrderLabelLists == ListsUpTo(OrderTokens, MaxLabels)
OrderUpstreamLists == {LabelsBug, LabelsMany}

NextOrder ==
    \/ CallResolveLabelIDs(1, NumRepoPairs, OrderLabelLists, MaxSeqCalls)
    \/ FetchRLock(1)
    \/ FetchCheck(1)
    \/ FetchLock(1)
    \/ FetchRecheck(1)
    \/ FetchListOK(1, OrderUpstreamLists)
    \/ FetchListFail(1)
    \/ ResolveStep(1)
    \/ ResolveReturn(1)
    \/ CallClearCache(1, MaxSeqCalls)
    \/ ClearLock(1)
    \/ ClearCache(1, FALSE)
    \/ Return(1)

SpecOrder == Init /\ [][NextOrder]_vars

(***************************************************************************)
(* The helpers applied on their own, as the package's tests do.            *)
(***************************************************************************)
\* the name-to-ID map of TestGetSuggestions
TestCatalog ==
    (<<"r","e","a","d","y","-","t","o","-","m","e","r","g","e">> :> 47
     @@ <<"r","e","a","d","y","-","t","o","-","t","e","s","t">> :> 48
     @@ <<"r","e","a","d","y","-","t","o","-","r","e","v","i","e","w">> :> 49
     @@ <<"i","n","-","r","e","v","i","e","w">> :> 46
     @@ <<"b","u","g">> :> 1
     @@ <<"e","n","h","a","n","c","e","m","e","n","t">> :> 2
     @@ <<"d","u","p","l","i","c","a","t","e">> :> 3)
\* the name-to-ID map of TestResolveLabelIDs_CaseInsensitive
TestLabelMap ==
    (<<"r","e","a","d","y","-","t","o","-","m","e","r","g","e">> :> 47
     @@ <<"i","n","-","r","e","v","i","e","w">> :> 46
     @@ <<"b","u","g">> :> 1)
\* a map with a key that is not lowercase, and one with four names sharing a letter
MixedCaseMap ==
    (<<"B","u","g">> :> 1
     @@ <<"b","u","g">> :> 2)
ManyMap ==
    (<<"b","a">> :> 1
     @@ <<"b","b">> :> 2
     @@ <<"b","c">> :> 3
     @@ <<"b","d">> :> 4)
FnMaps == {TestCatalog, TestLabelMap, MixedCaseMap, ManyMap}

FnInputs ==
    {<<"r","e","a","d","y">>,
     <<"R","E","A","D","Y">>,
     <<"i","n","-","r","e","v","i","e","w">>,
     <<"x","y","z","-","n","o","-","m","a","t","c","h">>,
     <<"d","u">>,
     <<"R","E","A","D","Y","-","T","O","-","M","E","R","G","E">>,
     <<"R","e","a","d","y","-","T","o","-","M","e","r","g","e">>,
     <<"r","e","a","d","y","-","t","o","-","m","e","r","g","e">>,
     <<"n","o","n","e","x","i","s","t","e","n","t">>,
     <<"b","u","g">>,
     <<"B","U","G">>,
     <<"B","u","g">>,
     <<"b">>,
     <<"d","e","b","u","g","g","i","n","g">>,
     <<>>}

\* a helper is about to be called with a map and an input
InitFn ==
    /\ cache = EmptyMap
    /\ mu = [readers |-> 0, writer |-> FALSE]
    /\ pc = [t \in Threads |-> "idle"]
    /\ call = [t \in Threads |-> NoCall]
    /\ okFetches = EmptyMap
    /\ evicted = EmptyMap
    /\ ncalls = 0
    /\ tool = NoTool
    /\ fn \in {[NoFn EXCEPT !.op = o, !.labelMap = m, !.input = s] :
                  o \in {"call lookupByName", "call getSuggestions"},
                  m \in FnMaps, s \in FnInputs}

ApplyLookupByName ==
    /\ fn.op = "call lookupByName"
    /\ fn' = [fn EXCEPT !.op = "lookupByName", !.out = lookupByName(fn.labelMap, fn.input)]
    /\ UNCHANGED <<cache, mu, pc, call, okFetches, evicted, ncalls, tool>>

ApplyGetSuggestions ==
    /\ fn.op = "call getSuggestions"
    /\ \E order \in MapOrders(DOMAIN fn.labelMap) :
          fn' = [fn EXCEPT !.op = "getSuggestions",
                           !.out = getSuggestions(fn.labelMap, fn.input, order)]
    /\ UNCHANGED <<cache, mu, pc, call, okFetches, evicted, ncalls, tool>>

NextFn == ApplyLookupByName \/ ApplyGetSuggestions

SpecFn == InitFn /\ [][NextFn]_vars

(***************************************************************************)
(* Text functions applied on their own.                                    *)
(***************************************************************************)
\* strings.Split(s, ","): the fields between the commas, empty ones included
RECURSIVE SplitFrom(_, _, _)
SplitFrom(s, current, parts) ==
    IF s = <<>> THEN Append(parts, current)
    ELSE IF Head(s) = "," THEN SplitFrom(Tail(s), <<>>, Append(parts, current))
    ELSE SplitFrom(Tail(s), Append(current, Head(s)), parts)

Split(s) == SplitFrom(s, <<>>, <<>>)

\* the loop of parseStringList: the trimmed parts that are not empty
RECURSIVE TrimmedParts(_, _)
TrimmedParts(parts, result) ==
    IF parts = <<>> THEN result
    ELSE LET trimmed == TrimSpace(Head(parts))
         IN  TrimmedParts(Tail(parts),
                          IF trimmed # <<>> THEN Append(result, trimmed) ELSE result)

\* a parse that keeps the parts as they stand between the commas
parseStringListUntrimmed(s) ==
    IF s = <<>> THEN [isNil |-> TRUE, items |-> <<>>]
    ELSE [isNil |-> FALSE, items |-> SelectSeq(Split(s), LAMBDA p : TrimSpace(p) # <<>>)]

\* parseStringList: nil for "", else a slice (possibly empty) of the trimmed parts
parseStringList(s) ==
    IF s = <<>> THEN [isNil |-> TRUE, items |-> <<>>]
    ELSE [isNil |-> FALSE, items |-> TrimmedParts(Split(s), <<>>)]

RECURSIVE StringsUpTo(_, _)
StringsUpTo(S, n) ==
    IF n = 0 THEN {<<>>}
    ELSE LET shorter == StringsUpTo(S, n - 1)
         IN  shorter \cup {Append(l, x) : l \in {s \in shorter : Len(s) = n - 1}, x \in S}

\* the strings parsed: letters, commas and blanks in every arrangement
ListChars == {"a", "b", ",", " "}
ListStrings == StringsUpTo(ListChars, MaxStrLen)

\* the errors rendered: inputs, reasons and suggestion lists
ErrorInputs == {<<>>, <<"x">>, <<"a"," ","b">>}
ErrorReasons == {ReasonEmpty, ReasonPositive, NotFoundReason(<<"o">>, <<"r">>)}
SuggestionNames == {<<"b","u","g">>, <<"b","a">>, <<"B","d">>}
ErrorValues ==
    {NewResolutionError(i, r, s) :
        i \in ErrorInputs, r \in ErrorReasons,
        s \in ListsUpTo(SuggestionNames, MaxSuggestions)}

\* a text function is about to be called
InitText ==
    /\ cache = EmptyMap
    /\ mu = [readers |-> 0, writer |-> FALSE]
    /\ pc = [t \in Threads |-> "idle"]
    /\ call = [t \in Threads |-> NoCall]
    /\ okFetches = EmptyMap
    /\ evicted = EmptyMap
    /\ ncalls = 0
    /\ tool = NoTool
    /\ fn \in {[NoFn EXCEPT !.op = "call Error", !.e = e] : e \in ErrorValues}
              \cup {[NoFn EXCEPT !.op = "call parseStringList", !.input = s] :
                       s \in ListStrings}

ApplyError ==
    /\ fn.op = "call Error"
    /\ fn' = [fn EXCEPT !.op = "Error", !.out = Error(fn.e)]
    /\ UNCHANGED <<cache, mu, pc, call, okFetches, evicted, ncalls, tool>>

ApplyParseStringList ==
    /\ fn.op = "call parseStringList"
    /\ fn' = [fn EXCEPT !.op = "parseStringList", !.out = parseStringList(fn.input)]
    /\ UNCHANGED <<cache, mu, pc, call, okFetches, evicted, ncalls, tool>>

NextText == ApplyError \/ ApplyParseStringList

SpecText == InitText /\ [][NextText]_vars

(***************************************************************************)
(* The tool handler that creates an issue dependency.                      *)
(***************************************************************************)
ParamOwner == <<"o","w","n","e","r">>
ParamRepo == <<"r","e","p","o">>
ParamIndex == <<"i","n","d","e","x">>
ParamNewDependency == <<"n","e","w","_","d","e","p","e","n","d","e","n","c","y">>

ErrSelfDependency == <<"s","e","l","f","-","d","e","p","e","n","d","e","n","c","y"," ","n","o","t"," ","a","l","l","o","w","e","d",":"," ","i","s","s","u","e"," ","c","a","n","n","o","t"," ","d","e","p","e","n","d"," ","o","n"," ","i","t","s","e","l","f">>
CreateErrPrefix == <<"c","r","e","a","t","e"," ","i","s","s","u","e"," ","d","e","p","e","n","d","e","n","c","y"," ","e","r","r",":"," ">>
GetIssueErrPrefix == <<"g","e","t"," ","u","p","d","a","t","e","d"," ","i","s","s","u","e"," ","e","r","r",":"," ">>

\* a lookup that hands back the zero value for an argument the request lacks
RequireLenient(arg, name) == [ok |-> TRUE, err |-> <<>>]

\* req.RequireString / req.RequireFloat: an error naming the argument when the
\* request does not have it
Require(arg, name) ==
    IF arg.present THEN [ok |-> TRUE, err |-> <<>>]
    ELSE [ok |-> FALSE, err |-> <<"r","e","q","u","i","r","e","d"," ","a","r","g","u","m","e","n","t"," ","\"">> \o name \o <<"\""," ","n","o","t"," ","f","o","u","n","d">>]

\* int64(f) of a float64 kept as its double: the fraction is cut off towards zero
Int64Of(halves) == IF halves >= 0 THEN halves \div 2 ELSE -((-halves) \div 2)

\* the requests: every argument present or not, issue numbers with and without
\* a fraction
FloatArgs == {FloatArg(h) : h \in -1 .. 2 * MaxIssue}
Requests ==
    [owner : {Missing, StringArg(<<"o">>)},
     repo : {Missing, StringArg(<<"r">>)},
     index : {Missing} \cup FloatArgs,
     new_dependency : {Missing} \cup FloatArgs]

\* a request has arrived
InitTool ==
    /\ cache = EmptyMap
    /\ mu = [readers |-> 0, writer |-> FALSE]
    /\ pc = [t \in Threads |-> "idle"]
    /\ call = [t \in Threads |-> NoCall]
    /\ okFetches = EmptyMap
    /\ evicted = EmptyMap
    /\ ncalls = 0
    /\ fn = NoFn
    /\ tool \in {[NoTool EXCEPT !.pc = "called", !.args = a] : a \in Requests}

\* to.ErrorResult(err): no result, the error handed back
ErrorResult(err) == [tool EXCEPT !.pc = "done", !.err = err, !.result = "nil"]

\* CreateIssueDependencyFn up to its first upstream call: the four arguments
\* are required in turn, then index and new_dependency are compared as int64
ValidateRequest ==
    /\ tool.pc = "called"
    /\ LET owner == Require(tool.args.owner, ParamOwner)
           repo == Require(tool.args.repo, ParamRepo)
           index == Require(tool.args.index, ParamIndex)
           newDependency == Require(tool.args.new_dependency, ParamNewDependency)
       IN  tool' =
              IF ~owner.ok THEN ErrorResult(owner.err)
              ELSE IF ~repo.ok THEN ErrorResult(repo.err)
              ELSE IF ~index.ok THEN ErrorResult(index.err)
              ELSE IF ~newDependency.ok THEN ErrorResult(newDependency.err)
              ELSE IF Int64Of(tool.args.index.num) = Int64Of(tool.args.new_dependency.num)
                   THEN ErrorResult(ErrSelfDependency)
              ELSE [tool EXCEPT !.pc = "CreateIssueDependency"]
    /\ UNCHANGED <<cache, mu, pc, call, okFetches, evicted, ncalls, fn>>

\* forgejo.Client().CreateIssueDependency succeeds
CreateIssueDependencyOK ==
    /\ tool.pc = "CreateIssueDependency"
    /\ tool' = [tool EXCEPT
                  !.pc = "GetIssue",
                  !.upstream = Append(@, [fn |-> "CreateIssueDependency",
                                          owner |-> tool.args.owner.str,
                                          repo |-> tool.args.repo.str,
                                          index |-> Int64Of(tool.args.index.num),
                                          dep |-> Int64Of(tool.args.new_dependency.num)])]
    /\ UNCHANGED <<cache, mu, pc, call, okFetches, evicted, ncalls, fn>>

\* forgejo.Client().CreateIssueDependency fails
CreateIssueDependencyFail ==
    /\ tool.pc = "CreateIssueDependency"
    /\ tool' = [ErrorResult(CreateErrPrefix \o ErrUpstream) EXCEPT
                  !.upstream = Append(@, [fn |-> "CreateIssueDependency",
                                          owner |-> tool.args.owner.str,
                                          repo |-> tool.args.repo.str,
                                          index |-> Int64Of(tool.args.index.num),
                                          dep |-> Int64Of(tool.args.new_dependency.num)])]
    /\ UNCHANGED <<cache, mu, pc, call, okFetches, evicted, ncalls, fn>>

\* forgejo.Client().GetIssue succeeds: to.TextResult(issue)
GetIssueOK ==
    /\ tool.pc = "GetIssue"
    /\ tool' = [tool EXCEPT
                  !.pc = "done", !.result = "issue",
                  !.upstream = Append(@, [fn |-> "GetIssue",
                                          owner |-> tool.args.owner.str,
                                          repo |-> tool.args.repo.str,
                                          index |-> Int64Of(tool.args.index.num),
                                          dep |-> 0])]
    /\ UNCHANGED <<cache, mu, pc, call, okFetches, evicted, ncalls, fn>>

\* forgejo.Client().GetIssue fails
GetIssueFail ==
    /\ tool.pc = "GetIssue"
    /\ tool' = [ErrorResult(GetIssueErrPrefix \o ErrUpstream) EXCEPT
                  !.upstream = Append(@, [fn |-> "GetIssue",
                                          owner |-> tool.args.owner.str,
                                          repo |-> tool.args.repo.str,
                                          index |-> Int64Of(tool.args.index.num),
                                          dep |-> 0])]
    /\ UNCHANGED <<cache, mu, pc, call, okFetches, evicted, ncalls, fn>>

NextTool ==
    \/ ValidateRequest
    \/ CreateIssueDependencyOK
    \/ CreateIssueDependencyFail
    \/ GetIssueOK
    \/ GetIssueFail

SpecTool == InitTool /\ [][NextTool]_vars

(***************************************************************************)
(* Properties.                                                             *)
(***************************************************************************)
Range(s) == {s[i] : i \in DOMAIN s}

\* sub occurs in s as a contiguous piece
IsSubstring(sub, s) ==
    \E i \in 0 .. Len(s) : \E j \in i .. Len(s) : SubSeq(s, i + 1, j) = sub

\* s and t are the same text up to the case of their letters
SameIgnoringCase(s, t) ==
    /\ Len(s) = Len(t)
    /\ \A i \in 1 .. Len(s) :
          \/ s[i] = t[i]
          \/ \E j \in 1 .. Len(UpperChars) : {s[i], t[i]} = {UpperChars[j], LowerChars[j]}

Resolving(t) == call[t].op = "ResolveLabelIDs"
Returned(t) == Resolving(t) /\ pc[t] = "done"
Keys == {cacheKey(p[1], p[2]) : p \in RepoPairs}

\* token j of the call of goroutine t, trimmed
Token(t, j) == TrimSpace(call[t].labels[j])
IsNumeric(s) == ParseInt(s).ok

RECURSIVE AttemptsOf(_)
AttemptsOf(S) ==
    IF S = {} THEN 0
    ELSE LET t == CHOOSE x \in S : TRUE
         IN  call[t].attempts + AttemptsOf(S \ {t})

\* the calls in progress for key k that found no entry at their first look
RacingCalls(k) == {t \in Threads : Resolving(t) /\ Key(t) = k /\ call[t].missed}

\* C1 as stated: concurrent ResolveLabelIDs calls for one repository that all
\* found the cache entry absent make at most one upstream call between them.
C1_OneUpstreamCallPerRace ==
    \A k \in Keys : AttemptsOf(RacingCalls(k)) <= 1

\* C1 amended: for every repository, at most one upstream listing has succeeded
\* since the cache was last empty, whatever the interleaving; only failed
\* listings and ClearCache let a later caller call upstream again.
C1_OneSuccessfulFetch ==
    \A k \in DOMAIN okFetches : okFetches[k] <= 1

\* two calls raced on the same miss; the second found the entry at the double-check
C1_Witness ==
    \E t \in Threads, u \in Threads :
        /\ t # u /\ Resolving(t) /\ Resolving(u) /\ Key(t) = Key(u)
        /\ call[t].missed /\ call[t].attempts = 0 /\ pc[t] = "loop"
        /\ call[u].missed /\ call[u].attempts = 1

\* C2: a call that returns without error returns one ID and one ResolvedLabel
\* per input token, in input order: entry i is the ID of token i (its value for
\* a numeric token, the catalog's ID of its lowercased name otherwise) and
\* resolved[i].ID = ids[i]; duplicates are kept.
C2_OneEntryPerToken ==
    \A t \in Threads :
        (Returned(t) /\ call[t].err = NoError) =>
            /\ Len(call[t].ids) = Len(call[t].labels)
            /\ Len(call[t].resolved) = Len(call[t].labels)
            /\ \A j \in 1 .. Len(call[t].labels) :
                  /\ j \in DOMAIN call[t].ids /\ j \in DOMAIN call[t].resolved
                  /\ call[t].resolved[j].ID = call[t].ids[j]
                  /\ call[t].ids[j] =
                        IF IsNumeric(Token(t, j)) THEN ParseInt(Token(t, j)).val
                        ELSE call[t].nameToID[ToLower(Token(t, j))]

\* a successful call on a list that mixes a numeric ID and a name, and one on a
\* list that names the same label twice
C2_Witness ==
    \E t \in Threads :
        /\ Returned(t) /\ call[t].err = NoError /\ Len(call[t].labels) = 2
        /\ IsNumeric(Token(t, 1)) /\ ~IsNumeric(Token(t, 2))
C2_WitnessDuplicate ==
    \E t \in Threads :
        /\ Returned(t) /\ call[t].err = NoError /\ Len(call[t].labels) = 2
        /\ call[t].ids[1] = call[t].ids[2]

\* a call whose only token is a decimal string with a value <= 0
NonPositiveOnly(t) ==
    /\ Len(call[t].labels) = 1
    /\ IsNumeric(Token(t, 1))
    /\ ParseInt(Token(t, 1)).val <= 0

\* C3: a call whose only token is a decimal string <= 0 always returns a
\* LabelResolutionError whose reason contains "ID must be positive", whether the
\* entry is cached or not and whether the upstream listing succeeds or fails.
C3_NonPositiveAlwaysRejected ==
    \A t \in Threads :
        (Returned(t) /\ NonPositiveOnly(t)) =>
            /\ call[t].err.Type = "LabelResolutionError"
            /\ IsSubstring(ReasonPositive, call[t].err.Reason)

\* a call whose only token is empty or only whitespace
EmptyOnly(t) ==
    /\ Len(call[t].labels) = 1
    /\ \A i \in 1 .. Len(call[t].labels[1]) : call[t].labels[1][i] \in SpaceChars

\* C4: a call whose only token is empty or whitespace-only always returns a
\* LabelResolutionError whose message contains "empty label not allowed",
\* whatever the state of the cache and of the upstream.
C4_EmptyAlwaysRejected ==
    \A t \in Threads :
        (Returned(t) /\ EmptyOnly(t)) =>
            /\ call[t].err.Type = "LabelResolutionError"
            /\ IsSubstring(ReasonEmpty, Error(call[t].err))

\* C5: lookupByName finds an ID exactly when a key of the map equals the
\* lowercased name, and returns that key's ID; names that differ only in the
\* case of their letters get the same answer.
C5_CaseInsensitiveLookup ==
    fn.op = "lookupByName" =>
        /\ fn.out.found <=> \E k \in DOMAIN fn.labelMap : k = ToLower(fn.input)
        /\ fn.out.found => fn.out.id = fn.labelMap[ToLower(fn.input)]
        /\ \A other \in FnInputs :
              SameIgnoringCase(fn.input, other) =>
                  lookupByName(fn.labelMap, other) = fn.out

\* a name typed with capitals is found under its lowercase key
C5_Witness ==
    /\ fn.op = "lookupByName"
    /\ fn.out.found
    /\ fn.input # ToLower(fn.input)

\* the keys of a map that getSuggestions may return for an input
Matches(labelMap, input) ==
    {k \in DOMAIN labelMap :
        IsSubstring(ToLower(input), k) \/ IsSubstring(k, ToLower(input))}

\* C7: getSuggestions returns only keys that contain the lowercased input or are
\* contained in it, all of them when they are at most 3, and never more than 3.
C7_Suggestions ==
    fn.op = "getSuggestions" =>
        /\ Range(fn.out) \subseteq Matches(fn.labelMap, fn.input)
        /\ Cardinality(Matches(fn.labelMap, fn.input)) <= 3 =>
              Range(fn.out) = Matches(fn.labelMap, fn.input)
        /\ Len(fn.out) <= 3

\* "ready" against the catalog of the test: the three ready-* names
C7_Witness ==
    /\ fn.op = "getSuggestions"
    /\ fn.labelMap = TestCatalog
    /\ fn.input = <<"r","e","a","d","y">>
    /\ Cardinality(Range(fn.out)) = 3
\* more than three names match, three are returned
C7_WitnessCut ==
    /\ fn.op = "getSuggestions"
    /\ Cardinality(Matches(fn.labelMap, fn.input)) > 3
    /\ Len(fn.out) = 3

\* C6: a token that parses as a positive integer is never rejected: it resolves
\* to that ID, and when the ID is not in the catalog its display name is the
\* trimmed token as typed.
C6_NumericAlwaysAccepted ==
    \A t \in Threads :
        (Resolving(t) /\ pc[t] \in {"loop", "done"}) =>
            /\ \A j \in 1 .. call[t].i :
                  (IsNumeric(Token(t, j)) /\ ParseInt(Token(t, j)).val > 0) =>
                      /\ call[t].labelIDs[j] = ParseInt(Token(t, j)).val
                      /\ call[t].resolvedLabels[j].ID = ParseInt(Token(t, j)).val
                      /\ ParseInt(Token(t, j)).val \notin DOMAIN call[t].idToName =>
                            call[t].resolvedLabels[j].Name = Token(t, j)
            /\ call[t].err.Type = "LabelResolutionError" =>
                  ~(IsNumeric(Token(t, call[t].i + 1))
                      /\ ParseInt(Token(t, call[t].i + 1)).val > 0)

\* a numeric token whose ID the catalog does not have was accepted under its own text
C6_Witness ==
    \E t \in Threads :
        /\ Returned(t) /\ call[t].err = NoError /\ Len(call[t].labels) >= 1
        /\ IsNumeric(Token(t, 1))
        /\ call[t].idToName # EmptyMap
        /\ call[t].ids[1] \notin DOMAIN call[t].idToName
        /\ call[t].resolved[1].Name = Token(t, 1)

\* the token at which the call of goroutine t was rejected
Rejected(t) == Token(t, call[t].i + 1)

\* C8: a token that is not numeric and whose lowercased form is no key of the
\* catalog is never accepted; the call is rejected at it with the reason
\* "not found in repository <owner>/<repo>" for the call's owner and repo, and
\* the suggestions are matching keys: all of them up to 3.
C8_NotFound ==
    \A t \in Threads :
        (Resolving(t) /\ pc[t] \in {"loop", "done"}) =>
            /\ \A j \in 1 .. call[t].i :
                  (Token(t, j) # <<>> /\ ~IsNumeric(Token(t, j))) =>
                      ToLower(Token(t, j)) \in DOMAIN call[t].nameToID
            /\ (/\ call[t].err.Type = "LabelResolutionError"
                /\ Rejected(t) # <<>>
                /\ ~IsNumeric(Rejected(t))) =>
                  /\ ToLower(Rejected(t)) \notin DOMAIN call[t].nameToID
                  /\ call[t].err.Reason =
                        NotFoundPrefix \o call[t].owner \o <<"/">> \o call[t].repo
                  /\ Range(call[t].err.Suggestions)
                        \subseteq Matches(call[t].nameToID, Rejected(t))
                  /\ Len(call[t].err.Suggestions) <= 3
                  /\ Cardinality(Range(call[t].err.Suggestions)) =
                        IF Cardinality(Matches(call[t].nameToID, Rejected(t))) > 3 THEN 3
                        ELSE Cardinality(Matches(call[t].nameToID, Rejected(t)))

\* a name that is not in the catalog was rejected with suggestions
C8_Witness ==
    \E t \in Threads :
        /\ Returned(t) /\ call[t].err.Type = "LabelResolutionError"
        /\ ~IsNumeric(Rejected(t)) /\ Rejected(t) # <<>>
        /\ Len(call[t].err.Suggestions) > 0

\* C9: a call that returns an error returns no IDs and no labels, whatever the
\* earlier tokens of the batch resolved to.
C9_NoPartialResults ==
    \A t \in Threads :
        (Returned(t) /\ call[t].err # NoError) =>
            /\ call[t].ids = <<>>
            /\ call[t].resolved = <<>>

\* a call rejected at its second token, after the first one was resolved
C9_Witness ==
    \E t \in Threads :
        /\ Returned(t) /\ call[t].err.Type = "LabelResolutionError"
        /\ Len(call[t].labelIDs) > 0

C11_CacheSize ==
    [][/\ Cardinality(DOMAIN cache) = Cardinality(DOMAIN okFetches)
       /\ Cardinality(DOMAIN cache') = Cardinality(DOMAIN okFetches')
       /\ ncalls = 0 => Cardinality(DOMAIN cache) = 0
       /\ \A t \in Threads :
             /\ (pc[t] = "size" /\ pc'[t] = "done") =>
                   call'[t].size = Cardinality(DOMAIN okFetches)
             /\ (pc[t] = "clear" /\ pc'[t] = "done") =>
                   Cardinality(DOMAIN cache') = 0
      ]_vars

\* GetCacheSize has returned 1
C11_Witness ==
    \E t \in Threads :
        call[t].op = "GetCacheSize" /\ pc[t] = "done" /\ call[t].size = 1
\* a ClearCache has emptied a cache that held the catalog another call fetched
C11_WitnessCleared ==
    \E t \in Threads, u \in Threads :
        /\ call[t].op = "ClearCache" /\ pc[t] = "done"
        /\ Resolving(u) /\ call[u].attempts = 1 /\ call[u].err = NoError
        /\ pc[u] \in {"loop", "done"}
        /\ cache = EmptyMap

\* s1 sep s2 sep ... sn
RECURSIVE JoinedBy(_, _, _)
JoinedBy(strs, sep, n) ==
    IF n = 0 THEN <<>>
    ELSE IF n = 1 THEN strs[1]
    ELSE JoinedBy(strs, sep, n - 1) \o sep \o strs[n]

\* "label '<input>' <reason>"
PlainMessage(e) == <<"l","a","b","e","l"," ","'">> \o e.Input \o <<"'"," ">> \o e.Reason

\* C12 as stated: the message is "label '<input>' <reason>", and with
\* suggestions that text followed by " Did you mean: <s1, s2, ...>?".
C12_MessageFormat ==
    fn.op = "Error" =>
        fn.out = IF fn.e.Suggestions = <<>> THEN PlainMessage(fn.e)
                 ELSE PlainMessage(fn.e) \o <<" ","D","i","d"," ","y","o","u"," ","m","e","a","n",":"," ">>
                      \o JoinedBy(fn.e.Suggestions, <<","," ">>, Len(fn.e.Suggestions))
                      \o <<"?">>

\* C12, amended: the message is "label '<input>' <reason>", and with
\* suggestions that text followed by ". Did you mean: <s1, s2, ...>?" (a
\* full stop ends the first sentence).
C12_MessageFormatWithStop ==
    fn.op = "Error" =>
        fn.out = IF fn.e.Suggestions = <<>> THEN PlainMessage(fn.e)
                 ELSE PlainMessage(fn.e) \o <<".">> \o <<" ","D","i","d"," ","y","o","u"," ","m","e","a","n",":"," ">>
                      \o JoinedBy(fn.e.Suggestions, <<","," ">>, Len(fn.e.Suggestions))
                      \o <<"?">>

\* an error with two suggestions has been rendered
C12_Witness ==
    fn.op = "Error" /\ Len(fn.e.Suggestions) = 2 /\ fn.e.Input # <<>>
\* an error without suggestions has been rendered
C12_WitnessPlain ==
    fn.op = "Error" /\ fn.e.Suggestions = <<>> /\ fn.out = PlainMessage(fn.e)

\* C13: a call with an empty labels list returns two empty sequences and no
\* error, whatever the cache holds and whatever the upstream listing does.
C13_EmptyListNoError ==
    \A t \in Threads :
        (Returned(t) /\ call[t].labels = <<>>) =>
            /\ call[t].err = NoError
            /\ call[t].ids = <<>>
            /\ call[t].resolved = <<>>

\* the call of goroutine t follows a ClearCache that removed its repository's entry
AfterClear(t) == Resolving(t) /\ Key(t) \in DOMAIN evicted

\* C14: one ClearCache removes every repository's entry; the next
\* ResolveLabelIDs for a repository that was cached before the clear misses,
\* lists the labels upstream again and resolves against the labels listed
\* then: a name is accepted with the ID the new listing gives it and rejected
\* when the new listing does not have it, whatever the old entry held.
C14_ClearThenRefetch ==
    [][\A t \in Threads :
          /\ (pc[t] = "clear" /\ pc'[t] = "done") =>
                /\ cache' = EmptyMap
                /\ evicted' = cache
          /\ (AfterClear(t) /\ pc[t] = "check" /\ pc'[t] # "check") =>
                pc'[t] = "Lock"
          /\ (AfterClear(t) /\ pc[t] = "recheck" /\ pc'[t] # "recheck") =>
                pc'[t] = "ListRepoLabels"
          /\ (AfterClear(t) /\ pc[t] = "ListRepoLabels" /\ pc'[t] = "loop") =>
                /\ call'[t].attempts = 1
                /\ cache'[Key(t)] = BuildMaps(call'[t].fetched, EmptyMap, EmptyMap)
          /\ (AfterClear(t) /\ pc[t] = "loop" /\ pc'[t] = "done") =>
                /\ call'[t].attempts = 1
                /\ call'[t].err = NoError =>
                      \A j \in 1 .. Len(call[t].labels) :
                          IsNumeric(Token(t, j))
                          \/ \E n \in DOMAIN call[t].fetched :
                                /\ SameIgnoringCase(call[t].fetched[n].Name, Token(t, j))
                                /\ call[t].fetched[n].ID = call'[t].ids[j]
                /\ IsSubstring(NotFoundPrefix, call'[t].err.Reason) =>
                      \A n \in DOMAIN call[t].fetched :
                          ~SameIgnoringCase(call[t].fetched[n].Name, call'[t].err.Input)
      ]_vars

\* after a clear, a name resolved to the ID of the new listing, which is not
\* the ID the entry cached before the clear gave it
C14_Witness ==
    \E t \in Threads :
        /\ AfterClear(t) /\ pc[t] = "done" /\ call[t].err = NoError
        /\ call[t].attempts = 1
        /\ Len(call[t].labels) >= 1 /\ ~IsNumeric(Token(t, 1))
        /\ ToLower(Token(t, 1)) \in DOMAIN evicted[Key(t)].nameToID
        /\ evicted[Key(t)].nameToID[ToLower(Token(t, 1))] # call[t].ids[1]
\* a clear removed the entries of two repositories at once
C14_WitnessAllKeys ==
    Cardinality(DOMAIN evicted) = 2 /\ cache = EmptyMap

\* the k-th piece of s between commas, found from the positions of the commas
CommaPositions(s) == {i \in 1 .. Len(s) : s[i] = ","}
Field(s, k) ==
    LET cs == CommaPositions(s)
        nth(m) == CHOOSE i \in cs : Cardinality({j \in cs : j < i}) = m - 1
        from == IF k = 1 THEN 0 ELSE nth(k - 1)
        to == IF k = Cardinality(cs) + 1 THEN Len(s) + 1 ELSE nth(k)
    IN  SubSeq(s, from + 1, to - 1)
\* p from its first to its last character that is not white space
Stripped(p) ==
    LET ink == {i \in 1 .. Len(p) : p[i] \notin SpaceChars}
    IN  IF ink = {} THEN <<>>
        ELSE SubSeq(p, CHOOSE i \in ink : \A j \in ink : i <= j,
                       CHOOSE i \in ink : \A j \in ink : j <= i)
ExpectedItems(s) ==
    SelectSeq([k \in 1 .. Cardinality(CommaPositions(s)) + 1 |-> Stripped(Field(s, k))],
              LAMBDA p : p # <<>>)

\* C15: parseStringList returns nil for "", and for any other string the
\* pieces between its commas, each without surrounding white space, in their
\* order, the empty ones dropped: never an empty item, never an item that
\* starts or ends with white space, and an empty but non-nil list when every
\* piece is blank.
C15_ParseStringList ==
    fn.op = "parseStringList" =>
        /\ fn.out.isNil <=> fn.input = <<>>
        /\ fn.out.items = IF fn.input = <<>> THEN <<>> ELSE ExpectedItems(fn.input)
        /\ \A k \in DOMAIN fn.out.items :
              LET item == fn.out.items[k]
              IN  /\ item # <<>>
                  /\ item[1] \notin SpaceChars
                  /\ item[Len(item)] \notin SpaceChars

\* two different items came out of a string with a blank in it
C15_Witness ==
    /\ fn.op = "parseStringList"
    /\ Len(fn.out.items) = 2
    /\ fn.out.items[1] # fn.out.items[2]
    /\ " " \in Range(fn.input)
\* a string of commas gave an empty list that is not nil
C15_WitnessCommas ==
    /\ fn.op = "parseStringList"
    /\ fn.input = <<",", ",">>
    /\ fn.out = [isNil |-> FALSE, items |-> <<>>]

\* the arguments the request of the handler lacks
MissingParams ==
    {p \in {ParamOwner, ParamRepo, ParamIndex, ParamNewDependency} :
        \/ p = ParamOwner /\ ~tool.args.owner.present
        \/ p = ParamRepo /\ ~tool.args.repo.present
        \/ p = ParamIndex /\ ~tool.args.index.present
        \/ p = ParamNewDependency /\ ~tool.args.new_dependency.present}
SelfDependent ==
    MissingParams = {} /\ tool.args.index.num = tool.args.new_dependency.num

\* C16: CreateIssueDependencyFn on a request whose index equals its
\* new_dependency returns an error that says "self-dependency not allowed", and
\* on a request that lacks owner, repo, index or new_dependency an error that
\* names a lacking argument (the lacking one when there is one); in both cases
\* it returns no result and calls neither CreateIssueDependency nor GetIssue.
C16_RejectedBeforeUpstream ==
    /\ (SelfDependent \/ MissingParams # {}) =>
          /\ tool.upstream = <<>>
          /\ tool.pc \in {"called", "done"}
    /\ (tool.pc = "done" /\ SelfDependent) =>
          /\ IsSubstring(<<"s","e","l","f","-","d","e","p","e","n","d","e","n","c","y"," ","n","o","t"," ","a","l","l","o","w","e","d">>, tool.err)
          /\ tool.result = "nil"
    /\ (tool.pc = "done" /\ MissingParams # {}) =>
          /\ tool.result = "nil"
          /\ \E p \in MissingParams : IsSubstring(p, tool.err)
          /\ \A p \in MissingParams : MissingParams = {p} => IsSubstring(p, tool.err)

\* a complete request with index = new_dependency has been turned down
C16_Witness ==
    /\ tool.pc = "done" /\ SelfDependent
    /\ tool.args.index.num = 2 * MaxIssue
    /\ tool.err = ErrSelfDependency
\* a request that lacks new_dependency only has been turned down
C16_WitnessMissing ==
    /\ tool.pc = "done" /\ MissingParams = {ParamNewDependency}
    /\ tool.err # <<>>

\* the goroutines that are reading or writing the cache, or calling upstream
\* on its behalf
Fetching == {t \in Threads : pc[t] = "ListRepoLabels"}
TouchingCache ==
    {t \in Threads : pc[t] \in {"check", "recheck", "ListRepoLabels", "clear", "size"}}

\* C17: at most one upstream listing is in flight for the whole resolver, and
\* from the re-check through the listing to the insertion the goroutine holds
\* the write lock alone: no other caller, for the same or another repository,
\* and no ClearCache or GetCacheSize, is reading or writing the cache.
C17_FetchExcludesAll ==
    /\ Cardinality(Fetching) <= 1
    /\ \A t \in Threads :
          pc[t] \in {"recheck", "ListRepoLabels"} =>
              /\ mu.writer
              /\ mu.readers = 0
              /\ TouchingCache = {t}

\* a listing is in flight while a call for another repository waits for the lock
C17_Witness ==
    \E t \in Threads, u \in Threads :
        /\ pc[t] = "ListRepoLabels"
        /\ Resolving(u) /\ pc[u] = "RLock" /\ Key(u) # Key(t)
\* a listing is in flight while a ClearCache and a GetCacheSize wait for the lock
C17_WitnessClear ==
    \E t \in Threads, u \in Threads :
        /\ pc[t] = "ListRepoLabels"
        /\ pc[u] \in {"clearLock", "sizeRLock"}

\* C18: between two clears an entry is put in the cache at most once per
\* repository, from absent, and a populated entry is never replaced, changed
\* or removed except by ClearCache, which removes them all; a ResolveLabelIDs
\* that finds the entry makes no upstream call and works with the maps of the
\* entry, whatever the upstream would list now.
C18_PopulatedOnce ==
    [][/\ \A k \in DOMAIN cache :
             \/ k \in DOMAIN cache' /\ cache'[k] = cache[k]
             \/ cache' = EmptyMap /\ \E t \in Threads : pc[t] = "clear" /\ pc'[t] = "done"
       /\ \A k \in DOMAIN okFetches' : okFetches'[k] <= 1
       /\ \A t \in Threads :
             /\ (pc[t] = "ListRepoLabels" /\ pc'[t] # "ListRepoLabels") =>
                   Key(t) \notin DOMAIN cache
             /\ (pc[t] \in {"check", "recheck"} /\ pc'[t] # pc[t]
                   /\ Key(t) \in DOMAIN cache) =>
                   /\ pc'[t] = "loop"
                   /\ call'[t].attempts = 0
                   /\ call'[t].nameToID = cache[Key(t)].nameToID
                   /\ call'[t].idToName = cache[Key(t)].idToName
             /\ (pc[t] = "loop" /\ pc'[t] \in {"loop", "done"}) =>
                   call'[t].attempts = call[t].attempts
      ]_vars

\* a call found the entry another call had put there and made no upstream call
C18_Witness ==
    \E t \in Threads :
        /\ Resolving(t) /\ pc[t] = "done" /\ call[t].err = NoError
        /\ ~call[t].missed /\ call[t].attempts = 0
        /\ call[t].nameToID # EmptyMap
        /\ Len(call[t].ids) >= 1

\* the IDs of a catalog whose names are n up to the case of the letters
IDsNamed(c, n) == {i \in DOMAIN c.idToName : ToLower(c.idToName[i]) = n}

\* C19 as stated: in every cached catalog, each key n of the name-to-ID map
\* with value i has an ID-to-name entry for i whose lowercased name is n, and
\* each entry (i, name) of the ID-to-name map has lowercase(name) sent to i by
\* the name-to-ID map.
C19_Consistent ==
    \A k \in DOMAIN cache :
        LET c == cache[k]
        IN  /\ \A n \in DOMAIN c.nameToID :
                  /\ c.nameToID[n] \in DOMAIN c.idToName
                  /\ ToLower(c.idToName[c.nameToID[n]]) = n
            /\ \A i \in DOMAIN c.idToName :
                  /\ ToLower(c.idToName[i]) \in DOMAIN c.nameToID
                  /\ c.nameToID[ToLower(c.idToName[i])] = i

\* C19, amended: in every cached catalog, each key n of the name-to-ID map
\* with value i has an ID-to-name entry for i whose lowercased name is n, and
\* each entry (i, name) of the ID-to-name map has lowercase(name) as a key of
\* the name-to-ID map, sent to an ID whose name is the same up to case: to i
\* itself when no other label has that name up to case.
C19_ConsistentUpToCase ==
    \A k \in DOMAIN cache :
        LET c == cache[k]
        IN  /\ \A n \in DOMAIN c.nameToID :
                  /\ c.nameToID[n] \in DOMAIN c.idToName
                  /\ ToLower(c.idToName[c.nameToID[n]]) = n
            /\ \A i \in DOMAIN c.idToName :
                  LET n == ToLower(c.idToName[i])
                  IN  /\ n \in DOMAIN c.nameToID
                      /\ c.nameToID[n] \in IDsNamed(c, n)
                      /\ IDsNamed(c, n) = {i} => c.nameToID[n] = i

\* a catalog with two labels named alike up to case is cached, and one with
\* labels of different names
C19_Witness ==
    \E k \in DOMAIN cache :
        \E n \in DOMAIN cache[k].nameToID : Cardinality(IDsNamed(cache[k], n)) = 2
C19_WitnessDistinct ==
    \E k \in DOMAIN cache :
        /\ Cardinality(DOMAIN cache[k].nameToID) = 2
        /\ Cardinality(DOMAIN cache[k].idToName) = 2
        /\ \E i \in DOMAIN cache[k].idToName :
              cache[k].idToName[i] # ToLower(cache[k].idToName[i])

\* labels a and b of a listing differ by the case of their letters only, and b
\* is the last label of the listing with that name up to case
LaterTwin(labels, a, b) ==
    /\ a < b
    /\ labels[a].Name # labels[b].Name
    /\ SameIgnoringCase(labels[a].Name, labels[b].Name)
    /\ \A c \in DOMAIN labels : c > b => ~SameIgnoringCase(labels[c].Name, labels[b].Name)

\* C20: when the upstream lists two labels whose names differ only by letter
\* case, the name-to-ID map holds the ID of the later one, so that name in any
\* case resolves to the later label's ID, and each of the two IDs has its own
\* name, as the upstream spells it, in the ID-to-name map.
C20_LaterTwinWins ==
    \A t \in Threads :
        (Resolving(t) /\ pc[t] \in {"loop", "done"} /\ call[t].attempts = 1) =>
            \A a \in DOMAIN call[t].fetched, b \in DOMAIN call[t].fetched :
                LaterTwin(call[t].fetched, a, b) =>
                    LET first == call[t].fetched[a]
                        later == call[t].fetched[b]
                    IN  /\ call[t].nameToID[ToLower(first.Name)] = later.ID
                        /\ cache[Key(t)].nameToID[ToLower(later.Name)] = later.ID
                        /\ call[t].idToName[first.ID] = first.Name
                        /\ call[t].idToName[later.ID] = later.Name
                        /\ (pc[t] = "done" /\ call[t].err = NoError) =>
                              \A j \in 1 .. Len(call[t].labels) :
                                  SameIgnoringCase(Token(t, j), first.Name) =>
                                      /\ call[t].ids[j] = later.ID
                                      /\ call[t].resolved[j].ID = later.ID

\* a name typed in a third spelling resolved to the later of two such labels
C20_Witness ==
    \E t \in Threads :
        /\ Returned(t) /\ call[t].err = NoError /\ call[t].attempts = 1
        /\ Len(call[t].fetched) = 2 /\ LaterTwin(call[t].fetched, 1, 2)
        /\ Len(call[t].labels) >= 1
        /\ SameIgnoringCase(Token(t, 1), call[t].fetched[1].Name)
        /\ Token(t, 1) \notin {call[t].fetched[1].Name, call[t].fetched[2].Name}
        /\ call[t].ids[1] = call[t].fetched[2].ID

\* C21: the display names of the two paths differ: a positive numeric token
\* whose ID is in the catalog is returned under the catalog's name for that
\* ID, in the catalog's spelling, and a name token that matches is returned
\* under the trimmed token as typed; so the number and the name of one label
\* resolve to the same ID under different names.
C21_DisplayNames ==
    \A t \in Threads :
        (Returned(t) /\ call[t].err = NoError) =>
            \A j \in 1 .. Len(call[t].labels) :
                IF IsNumeric(Token(t, j))
                THEN call[t].ids[j] \in DOMAIN call[t].idToName =>
                        call[t].resolved[j].Name = call[t].idToName[call[t].ids[j]]
                ELSE call[t].resolved[j].Name = Token(t, j)

\* a label's number and its name in another spelling gave one ID and two names
C21_Witness ==
    \E t \in Threads :
        /\ Returned(t) /\ call[t].err = NoError /\ Len(call[t].labels) = 2
        /\ IsNumeric(Token(t, 1)) /\ ~IsNumeric(Token(t, 2))
        /\ call[t].ids[1] = call[t].ids[2]
        /\ call[t].resolved[1].Name = call[t].idToName[call[t].ids[1]]
        /\ call[t].resolved[2].Name = Token(t, 2)
        /\ call[t].resolved[1].Name # call[t].resolved[2].Name

\* token j of the call of goroutine t is one the call must turn down: empty,
\* a number that is not positive, or a name the call's catalog does not have
InvalidToken(t, j) ==
    \/ Token(t, j) = <<>>
    \/ IsNumeric(Token(t, j)) /\ ParseInt(Token(t, j)).val <= 0
    \/ ~IsNumeric(Token(t, j)) /\ ToLower(Token(t, j)) \notin DOMAIN call[t].nameToID
ReasonFor(t, j) ==
    IF Token(t, j) = <<>> THEN ReasonEmpty
    ELSE IF IsNumeric(Token(t, j)) THEN ReasonPositive
    ELSE NotFoundPrefix \o call[t].owner \o <<"/">> \o call[t].repo

\* C22: tokens are taken in input order and the call stops at the first one
\* that is empty, not positive or not found: the error returned is that
\* token's error, and no later token is looked at (["", "0"] gives the
\* empty-label error, ["0", ""] the positive-ID error).
C22_FirstInvalidDecides ==
    \A t \in Threads :
        Returned(t) =>
            LET bad == {j \in 1 .. Len(call[t].labels) : InvalidToken(t, j)}
            IN  bad # {} =>
                    LET first == CHOOSE j \in bad : \A k \in bad : j <= k
                    IN  /\ call[t].err.Type = "LabelResolutionError"
                        /\ call[t].err.Reason = ReasonFor(t, first)
                        /\ call[t].i = first - 1

\* the goroutines that are at a read of the cache map, and at a write of it
\* (the insertion with its re-check and listing, the replacement by ClearCache)
CacheReaders == {t \in Threads : pc[t] \in {"check", "size"}}
CacheWriters == {t \in Threads : pc[t] \in {"recheck", "ListRepoLabels", "clear"}}
Exclusive ==
    /\ Cardinality(CacheWriters) <= 1
    /\ CacheWriters # {} => CacheReaders = {}
    /\ mu.writer <=> CacheWriters # {}
    /\ mu.readers = Cardinality(CacheReaders)

\* C23: in every interleaving of ResolveLabelIDs, ClearCache and GetCacheSize
\* calls of several goroutines, no goroutine reads or replaces the cache map
\* while another writes it: reads happen with the read lock held and no
\* writer, and the map changes only in a step of the one goroutine that holds
\* the write lock.
C23_NoRace ==
    [][/\ Exclusive
       /\ Exclusive'
       /\ cache' # cache =>
             /\ mu.writer /\ mu.readers = 0
             /\ \E t \in CacheWriters : pc'[t] # pc[t] /\ CacheWriters = {t}
       /\ \A t \in CacheReaders : pc'[t] # pc[t] => (~mu.writer /\ mu.readers >= 1)
      ]_vars

\* two goroutines read the cache at the same time
C23_Witness ==
    \E t \in Threads, u \in Threads :
        /\ t # u /\ pc[t] = "check" /\ pc[u] \in {"check", "size"}
        /\ mu.readers = 2
\* a ClearCache holds the write lock while a reader waits
C23_WitnessWriter ==
    \E t \in Threads, u \in Threads :
        pc[t] = "clear" /\ pc[u] \in {"RLock", "sizeRLock"}

\* the element of the labels list at which the call of goroutine t was rejected
RejectedAsSupplied(t) == call[t].labels[call[t].i + 1]

\* C24 as stated: every validation or not-found LabelResolutionError returned
\* by ResolveLabelIDs has as Input the offending element of the labels list as
\* the caller supplied it.
C24_InputAsSupplied ==
    \A t \in Threads :
        (Returned(t) /\ call[t].err.Type = "LabelResolutionError") =>
            call[t].err.Input = RejectedAsSupplied(t)

\* C24, amended: every validation or not-found LabelResolutionError returned
\* by ResolveLabelIDs has as Input the offending element of the labels list
\* without its surrounding white space: the empty string for an element that
\* is empty or blank.
C24_InputTrimmed ==
    \A t \in Threads :
        (Returned(t) /\ call[t].err.Type = "LabelResolutionError") =>
            call[t].err.Input = Stripped(RejectedAsSupplied(t))

\* a name typed with a leading blank was not found, and a blank element was
\* turned down
C24_Witness ==
    \E t \in Threads :
        /\ Returned(t) /\ call[t].err.Type = "LabelResolutionError"
        /\ IsSubstring(NotFoundPrefix, call[t].err.Reason)
        /\ call[t].err.Input # <<>>
        /\ call[t].err.Input # RejectedAsSupplied(t)
C24_WitnessBlank ==
    \E t \in Threads :
        /\ Returned(t) /\ call[t].err.Type = "LabelResolutionError"
        /\ call[t].err.Reason = ReasonEmpty
        /\ RejectedAsSupplied(t) # <<>>

\* the calls of goroutines t and u are for different (owner, repo) pairs
OtherRepository(t, u) ==
    <<call[t].owner, call[t].repo>> # <<call[u].owner, call[u].repo>>

\* C25: calls for different (owner, repo) pairs never share a cache entry,
\* also when an owner or a repository name holds a "/": a call that found its
\* entry in the cache is not working with the catalog that a call for another
\* pair listed and stored.
C25_NoSharedEntry ==
    \A t \in Threads, u \in Threads :
        (/\ Resolving(t) /\ Resolving(u) /\ OtherRepository(t, u)
         /\ pc[t] \in {"loop", "done"} /\ call[t].attempts = 1 /\ call[t].fetched # <<>>
         /\ pc[u] \in {"loop", "done"} /\ call[u].attempts = 0 /\ ~call[u].missed) =>
            Key(t) # Key(u)

\* C26: once a ResolveLabelIDs call has its catalog, a ClearCache or a fetch
\* for another repository does not change its result: the call keeps its
\* maps, every token is judged by those maps whatever the cache holds by then,
\* its own steps neither take the lock nor touch the cache, and an entry of
\* the cache is not altered while it is in the cache.
C26_BatchKeepsCatalog ==
    [][/\ \A k \in DOMAIN cache : k \in DOMAIN cache' => cache'[k] = cache[k]
       /\ \A t \in Threads :
             (Resolving(t) /\ pc[t] = "loop") =>
                 /\ call'[t].nameToID = call[t].nameToID
                 /\ call'[t].idToName = call[t].idToName
                 /\ (call'[t] # call[t] \/ pc'[t] # pc[t]) =>
                       /\ mu' = mu /\ cache' = cache
                       /\ pc'[t] \in {"loop", "done"}
                       /\ call[t].i < Len(call[t].labels) =>
                             LET tok == Token(t, call[t].i + 1)
                             IN  (tok # <<>> /\ ~IsNumeric(tok)) =>
                                     IF ToLower(tok) \in DOMAIN call[t].nameToID
                                     THEN /\ call'[t].err = NoError
                                          /\ call'[t].labelIDs =
                                                Append(call[t].labelIDs,
                                                       call[t].nameToID[ToLower(tok)])
                                     ELSE call'[t].err.Type = "LabelResolutionError"
      ]_vars

\* a ClearCache has emptied the cache while a call that has its catalog has
\* not yet looked at its first token, a name the catalog has
C26_Witness ==
    \E t \in Threads, u \in Threads :
        /\ Resolving(t) /\ pc[t] = "loop" /\ call[t].i = 0
        /\ Len(call[t].labels) >= 1
        /\ ToLower(Token(t, 1)) \in DOMAIN call[t].nameToID
        /\ call[u].op = "ClearCache" /\ pc[u] = "done"
        /\ cache = EmptyMap

\* C27: under fair scheduling, and with every upstream call coming back, every
\* ResolveLabelIDs, ClearCache and GetCacheSize call returns: no interleaving
\* leaves a goroutine waiting for the lock forever.
C27_EveryCallReturns ==
    \A t \in Threads : (pc[t] # "idle") ~> (pc[t] = "done")

\* a call waited at the write lock while another call's listing failed, then
\* got the lock, listed the labels itself and returned
C27_Witness ==
    \E t \in Threads, u \in Threads :
        /\ t # u /\ Resolving(t) /\ Resolving(u) /\ Key(t) = Key(u)
        /\ pc[t] = "done" /\ call[t].err.Type = "wrapError"
        /\ pc[u] = "done" /\ call[u].missed /\ call[u].attempts = 1
        /\ call[u].err.Type # "wrapError"

\* a token written as digits after an optional sign, few enough to be far inside
\* the int64 range, and the number it writes
Digits(s) == IF s # <<>> /\ Head(s) \in {"+", "-"} THEN Tail(s) ELSE s
AllDigits(s) == s # <<>> /\ \A i \in 1 .. Len(s) : IsDigit(s[i])
ShortNumeral(s) == AllDigits(Digits(s)) /\ Len(Digits(s)) <= 9
NumeralValue(s) ==
    IF Head(s) = "-" THEN 0 - DigitsValue(Digits(s), 0) ELSE DigitsValue(Digits(s), 0)
\* an all-digit token above math.MaxInt64
HugeNumeral(s) == AllDigits(s) /\ ~DigitsLeq(StripZeros(s), MaxInt64Digits)

\* what holds of the tokens that parse, whatever the catalog's names are: an
\* accepted one stands for the ID it writes, a rejected one is not positive
NumeralsAreIDs(t) ==
    /\ call[t].err = NoError =>
          \A j \in 1 .. Len(call[t].labels) :
              ShortNumeral(Token(t, j)) =>
                  /\ call[t].ids[j] = NumeralValue(Token(t, j))
                  /\ call[t].resolved[j].ID = NumeralValue(Token(t, j))
    /\ (call[t].err.Type = "LabelResolutionError" /\ ShortNumeral(Rejected(t))) =>
          /\ NumeralValue(Rejected(t)) <= 0
          /\ call[t].err.Reason = ReasonPositive

\* C28 as stated: whether a token is an ID or a name is decided by the parse
\* alone. A token that parses stands for the ID it writes and is never looked
\* up by name, even when a label has exactly that name; an all-digit token
\* above the int64 range does not parse, is taken as a name and gives a
\* not-found error: no call accepts it, and none rejects it as a non-positive ID.
C28_DispatchByParse ==
    \A t \in Threads :
        (Returned(t) /\ call[t].err.Type # "wrapError") =>
            /\ NumeralsAreIDs(t)
            /\ call[t].err = NoError =>
                  \A j \in 1 .. Len(call[t].labels) : ~HugeNumeral(Token(t, j))
            /\ (call[t].err.Type = "LabelResolutionError" /\ HugeNumeral(Rejected(t))) =>
                  call[t].err.Reason = NotFoundReason(call[t].owner, call[t].repo)

\* C28, amended: as above for the tokens that parse; an all-digit token above
\* the int64 range is taken as a name: it resolves to the ID of the label that
\* has this name when the catalog has one, and gives a not-found error when it
\* has none; it is never rejected as a non-positive ID and never stands for a
\* number.
C28_HugeIsAName ==
    \A t \in Threads :
        (Returned(t) /\ call[t].err.Type # "wrapError") =>
            /\ NumeralsAreIDs(t)
            /\ call[t].err = NoError =>
                  \A j \in 1 .. Len(call[t].labels) :
                      HugeNumeral(Token(t, j)) =>
                          /\ Token(t, j) \in DOMAIN call[t].nameToID
                          /\ call[t].ids[j] = call[t].nameToID[Token(t, j)]
                          /\ call[t].resolved[j].Name = Token(t, j)
            /\ (call[t].err.Type = "LabelResolutionError" /\ HugeNumeral(Rejected(t))) =>
                  /\ Rejected(t) \notin DOMAIN call[t].nameToID
                  /\ call[t].err.Reason = NotFoundReason(call[t].owner, call[t].repo)
                  /\ call[t].err.Input = Rejected(t)

\* "2" went to label 2 although another label is named "2", and 2^63 went to the
\* label of that name
C28_Witness ==
    \E t \in Threads :
        /\ Returned(t) /\ call[t].err = NoError /\ Len(call[t].labels) = 2
        /\ Token(t, 1) = <<"2">> /\ <<"2">> \in DOMAIN call[t].nameToID
        /\ call[t].ids[1] = 2 /\ call[t].nameToID[<<"2">>] # 2
        /\ HugeNumeral(Token(t, 2)) /\ call[t].ids[2] = 3

\* 2^63 was turned down as a name the repository does not have
C28_WitnessNotFound ==
    \E t \in Threads :
        /\ Returned(t) /\ call[t].err.Type = "LabelResolutionError"
        /\ HugeNumeral(Rejected(t))
        /\ call[t].err.Reason = NotFoundReason(call[t].owner, call[t].repo)

\* the call of goroutine t has returned a validation or not-found error
FailedOnToken(t) == Returned(t) /\ call[t].err.Type = "LabelResolutionError"

\* C29: a call that fails on a token (empty, non-positive ID, not found) does
\* not roll its fetch back: the step that rejects the token leaves the cache,
\* the lock and the count of listings as they are, the repository's entry is
\* in the cache unless a ClearCache has emptied it since, and a GetCacheSize
\* that reads afterwards counts the repository.
C29_FailureKeepsCatalog ==
    [][\A t \in Threads :
          /\ (Resolving(t) /\ pc[t] = "loop" /\ pc'[t] = "done"
                /\ call'[t].err.Type = "LabelResolutionError") =>
                /\ cache' = cache
                /\ mu' = mu
                /\ okFetches' = okFetches
                /\ Key(t) \in DOMAIN okFetches => Key(t) \in DOMAIN cache'
          /\ (pc[t] = "size" /\ pc'[t] = "done") =>
                \A u \in Threads :
                    (FailedOnToken(u) /\ Key(u) \in DOMAIN okFetches) =>
                        /\ Key(u) \in DOMAIN cache
                        /\ call'[t].size >= 1
                        /\ call'[t].size = Cardinality(DOMAIN cache)
      ]_vars

\* a call that fetched the catalog has failed on a token, the entry is the only
\* one in the cache, and a GetCacheSize is about to read
C29_Witness ==
    \E t \in Threads, u \in Threads :
        /\ FailedOnToken(t) /\ call[t].attempts = 1
        /\ call[t].nameToID # EmptyMap
        /\ DOMAIN cache = {Key(t)}
        /\ cache[Key(t)].nameToID = call[t].nameToID
        /\ call[u].op = "GetCacheSize" /\ pc[u] = "size"

\* what the pass of the loop that goroutine t is about to make returns or
\* leaves when the map is visited in the given order
Outcome(t, order) ==
    LET c == ResolveToken(call[t], order)
    IN  IF c.err # NoError THEN ErrorReturn(c) ELSE c
WithoutSuggestions(c) == [c EXCEPT !.err.Suggestions = <<>>]
AboutToResolve(t) ==
    Resolving(t) /\ pc[t] = "loop" /\ call[t].i < Len(call[t].labels)
\* the catalog names that match the token the call is rejected at
Candidates(t) == Matches(call[t].nameToID, Rejected(t))
Distinct(list) == Cardinality(Range(list)) = Len(list)

\* C30 as stated: two runs of a pass over the same token with the same catalog
\* agree on IDs, resolved labels, error kind, offending input and reason; their
\* suggestion lists differ only when more than 3 names match the token, and
\* then each list is 3 of the matching names.
C30_Deterministic ==
    [][\A t \in Threads :
          (AboutToResolve(t) /\ call'[t] # call[t]) =>
              \A order \in MapOrders(DOMAIN call[t].nameToID) :
                  /\ WithoutSuggestions(Outcome(t, order)) = WithoutSuggestions(call'[t])
                  /\ Outcome(t, order).err.Suggestions # call'[t].err.Suggestions =>
                        /\ Cardinality(Matches(call[t].nameToID, Token(t, call[t].i + 1))) > 3
                        /\ Len(call'[t].err.Suggestions) = 3
                        /\ Distinct(call'[t].err.Suggestions)
      ]_vars

\* C30, amended: two runs agree on everything but the suggestions. Their
\* suggestion lists differ only when at least 2 names match the token: with 2
\* or 3 matching names both lists hold all of them and may differ in order;
\* with more than 3 each list is 3 of the matching names, in any order.
C30_SuggestionsOnly ==
    [][\A t \in Threads :
          (AboutToResolve(t) /\ call'[t] # call[t]) =>
              \A order \in MapOrders(DOMAIN call[t].nameToID) :
                  /\ WithoutSuggestions(Outcome(t, order)) = WithoutSuggestions(call'[t])
                  /\ Outcome(t, order).err.Suggestions # call'[t].err.Suggestions =>
                        LET matching == Matches(call[t].nameToID, Token(t, call[t].i + 1))
                            mine     == call'[t].err.Suggestions
                            other    == Outcome(t, order).err.Suggestions
                        IN  /\ Cardinality(matching) >= 2
                            /\ Distinct(mine) /\ Distinct(other)
                            /\ Range(mine) \subseteq matching
                            /\ Range(other) \subseteq matching
                            /\ Cardinality(matching) <= 3 =>
                                  Range(mine) = matching /\ Range(other) = matching
                            /\ Cardinality(matching) > 3 =>
                                  Len(mine) = 3 /\ Len(other) = 3
      ]_vars

\* a call was rejected at a token that two names match, and the other order of
\* the map gives the two suggestions the other way round
C30_Witness ==
    \E t \in Threads :
        /\ FailedOnToken(t) /\ Cardinality(Candidates(t)) = 2
        /\ \E order \in MapOrders(DOMAIN call[t].nameToID) :
              LET other == getSuggestions(call[t].nameToID, Rejected(t), order)
              IN  /\ other # call[t].err.Suggestions
                  /\ Range(other) = Range(call[t].err.Suggestions)

\* a call was rejected at a token that four names match, and another order of
\* the map suggests a name this call did not
C30_WitnessCut ==
    \E t \in Threads :
        /\ FailedOnToken(t) /\ Cardinality(Candidates(t)) > 3
        /\ \E order \in MapOrders(DOMAIN call[t].nameToID) :
              Range(getSuggestions(call[t].nameToID, Rejected(t), order))
                  # Range(call[t].err.Suggestions)
====
